---- MODULE Spec2Model ----
(***************************************************************************)
(* elwiz-prices: the price cache, the fetch cycle, the rollover publish    *)
(* controller and the currency-rate memoization of PriceManager and of the *)
(* CLI entry point (src/unnamed/part_005).                                 *)
(*                                                                         *)
(* Dates are day numbers (the ISO date string of day d is written d).      *)
(* An absent object (null / undefined) is the empty sequence <<>>, a       *)
(* present object v is <<v>>.                                              *)
(***************************************************************************)
EXTENDS Integers, Sequences, FiniteSets, TLC

\* ------------------------------------------------------------------ bounds
\* last calendar day the model reaches
MaxDay == 1
\* config.keepDays (and config.currencyKeepDays, which defaults to it)
KeepDays == 3

\* ------------------------------------------------------- program constants
PriceTopic == "elwiz/prices"
ScheduleHours == {13, 14}
ScheduleMinutes == {6, 11, 16, 21}
\* instants of one day the clock steps through, as <<hour, minute>>
TimeSamples == << <<13, 5>>, <<13, 6>>, <<13, 7>> >>
Tasks == {"cycle", "entsoe"}
Null == <<>>
Some(v) == <<v>>
\* two ObjectCache stores without a key
NoKeys == [prices |-> {}, currencies |-> {}]
\* no currency call in flight
NoRateCalls ==
  [get |-> [pc |-> "idle", code |-> "", latest |-> Null, result |-> Null],
   store |-> [pc |-> "idle", caller |-> "none", data |-> Null, existing |-> Null,
              threw |-> FALSE]]
\* no date computation in flight, the process at its first instant
NoDateCall ==
  [at |-> 1, pc |-> "idle", off |-> 0, dateStr |-> Null, isoDate |-> Null,
   pub |-> Null, keys |-> Null]

VARIABLES
  day,               \* wall-clock date
  clock,             \* index into TimeSamples: the time of day
  enableMqtt,        \* config.enableMqtt with a connected client
  priceCache,        \* ObjectCache "prices": date -> day object
  retained,          \* the broker's retained messages: topic -> payload
  pubLog,            \* messages handleMqttPublishing handed to the transport, this run
  apiMsg,            \* the message PriceManager.publishToMqtt has in flight
  apiCalled,         \* a library user has called fetchAndProcessPrices
  cyc,               \* runFetchCycle / handleMqttPublishing: position and locals
  ft,                \* per task: safeFetchAndProcess / fetchPricesOnly position and locals
  scheduleEuMinutes, \* config.scheduleEuMinutes
  curFeed,           \* what CurrencyRateSource can answer (environment)
  curByDate,         \* ObjectCache "currencies": date -> record (currencies-<date>)
  curLatest,         \* ObjectCache "currencies": currencies-latest
  currencyRateCache, \* PriceManager.currencyRateCache (in-process map code -> rate)
  curCall,           \* last currency call: what it did and returned
  priceService,      \* RestServer.priceService: null or the day-window store
  cacheFails,        \* the cache backend cannot be reached (cacheAccess throws)
  req,               \* the HTTP request express is dispatching, if any
  res,               \* the HTTP response the server has produced for it, if any
  normIn,            \* normalizeSeries: the points handed in
  normTarget,        \* normalizeSeries: targetInterval
  normOut,           \* what the last normalizer call returned, if any
  timeZone,          \* the time zone the process runs in (Date's local time)
  storeCall,         \* last call on the day-window store: what it did and returned
  cacheKeys,         \* the keys of the two ObjectCache stores: [prices, currencies]
  sweepCall,         \* last retention sweep: when it ran and what the stores held
  rateCalls,         \* getCurrencyRate / fetchAndStoreCurrencyRates in flight: position and locals
  dateCall           \* the instant of the process and the dates its last call computed there

vars == <<day, clock, enableMqtt, priceCache, retained, pubLog, apiMsg, apiCalled, cyc, ft,
          scheduleEuMinutes, curFeed, curByDate, curLatest, currencyRateCache, curCall,
          priceService, cacheFails, req, res, normIn, normTarget, normOut, timeZone,
          storeCall, cacheKeys, sweepCall, rateCalls, dateCall>>

curVars == <<curByDate, curLatest, currencyRateCache, curCall>>
restVars == <<priceService, cacheFails, req, res, storeCall>>
normVars == <<normIn, normTarget, normOut, timeZone>>
sweepVars == <<cacheKeys, sweepCall>>
envVars == <<enableMqtt, scheduleEuMinutes, curFeed, apiCalled, restVars, normVars, sweepVars, rateCalls,
            dateCall>>

\* ----------------------------------------------------------------- helpers
Put(f, k, v) == [x \in DOMAIN f \cup {k} |-> IF x = k THEN v ELSE f[x]]
Del(f, S) == [x \in DOMAIN f \ S |-> f[x]]
Has(f, k) == k \in DOMAIN f
Get(f, k) == IF k \in DOMAIN f THEN Some(f[k]) ELSE Null
MaxOf(S) == CHOOSE x \in S : \A y \in S : y <= x
EmptyMap == [x \in {} |-> 0]

\* ------------------------------------------------------------------- dates
\* getDateForOffset(dayOffset): the date dayOffset days from today
getDateForOffset(dayOffset) == day + dayOffset

\* shouldFetchNextDay(config, referenceDate)
shouldFetchNextDayAt(hm) ==
  LET currentHour == hm[1]
      currentMinute == hm[2]
      latestHour == MaxOf(ScheduleHours)
  IN  \/ (currentHour \in ScheduleHours /\ currentMinute \in ScheduleMinutes)
      \/ currentHour > latestHour

shouldFetchNextDay == shouldFetchNextDayAt(TimeSamples[clock])

\* ------------------------------------------------- currency rate records
\* A CurrencyRateRecord is [date, rates, fetchedAt]; rates is a JSON object,
\* kept as the sequence of its <<code, rate>> properties in insertion order.
ConfigPriceCurrency == "NOK"
\* the currency codes in the order Array.prototype.sort() gives them
CodeOrder == <<"NOK", "SEK", "USD">>
Codes == {CodeOrder[i] : i \in 1..Len(CodeOrder)}

HasProp(obj, k) == \E i \in 1..Len(obj) : obj[i][1] = k
Prop(obj, k) == obj[CHOOSE i \in 1..Len(obj) : obj[i][1] = k][2]

\* the payload handed on with its fetchedAt property
stripFetchedAt_Kept(payload) == payload

\* the signature made of the date alone
stableStringify_DateOnly(value) == <<"date", value.date>>

\* toUpperCase left out
toUpperCase_Missing(c) == c

\* String.prototype.toUpperCase on the codes callers pass
toUpperCase(c) ==
  CASE c = "eur" -> "EUR"
    [] c = "nok" -> "NOK"
    [] OTHER -> c

\* stripFetchedAt(payload): the payload without its fetchedAt property
stripFetchedAt(payload) == [date |-> payload.date, rates |-> payload.rates]

\* the replacer of stableStringify: the object rebuilt with its keys sorted
RECURSIVE sortKeysFrom(_, _)
sortKeysFrom(obj, k) ==
  IF k > Len(CodeOrder) THEN <<>>
  ELSE IF HasProp(obj, CodeOrder[k])
       THEN <<<<CodeOrder[k], Prop(obj, CodeOrder[k])>>>> \o sortKeysFrom(obj, k + 1)
       ELSE sortKeysFrom(obj, k + 1)

\* stableStringify(value): JSON text of the value with every object's keys sorted
stableStringify(value) ==
  <<"date", value.date>>
    \o (IF "fetchedAt" \in DOMAIN value THEN <<"fetchedAt", value.fetchedAt>> ELSE <<>>)
    \o <<"rates", sortKeysFrom(value.rates, 1)>>

\* fetchAndStoreCurrencyRates() given the source's answer (Null: the fetch threw).
\* The result names the new cache and map contents and what the call did.
fetchAndStoreCurrencyRates(resp, byDate, latest, map) ==
  IF resp = Null
  THEN [threw |-> TRUE, data |-> Null, byDate |-> byDate, latest |-> latest,
        map |-> map, creates |-> <<>>, cleared |-> FALSE]
  ELSE
    LET data == resp[1]
        existing == Get(byDate, data.date)
        incomingSignature == stableStringify(stripFetchedAt(data))
        hasChanges == \/ existing = Null
                      \/ stableStringify(stripFetchedAt(existing[1])) # incomingSignature
    IN  IF hasChanges
        THEN [threw |-> FALSE, data |-> resp,
              byDate |-> Put(byDate, data.date, data), latest |-> Some(data),
              map |-> EmptyMap, creates |-> <<"date", "latest">>, cleared |-> TRUE]
        ELSE IF latest = Null
             THEN [threw |-> FALSE, data |-> resp, byDate |-> byDate,
                   latest |-> existing, map |-> map, creates |-> <<"latest">>,
                   cleared |-> FALSE]
             ELSE [threw |-> FALSE, data |-> resp, byDate |-> byDate,
                   latest |-> latest, map |-> map, creates |-> <<>>,
                   cleared |-> FALSE]

\* ensureCurrencyRates() without its try/catch: the error of the fetch goes on
\* to the caller
ensureCurrencyRates_Rethrows(resp, byDate, latest, map) ==
  IF latest = Null \/ latest[1].date # day
  THEN fetchAndStoreCurrencyRates(resp, byDate, latest, map)
  ELSE [threw |-> FALSE, data |-> Null, byDate |-> byDate, latest |-> latest,
        map |-> map, creates |-> <<>>, cleared |-> FALSE]

\* ensureCurrencyRates(): refetch unless currencies-latest is dated today;
\* a failure of the fetch is logged and swallowed (catch, lines 612-616).
ensureCurrencyRates(resp, byDate, latest, map) ==
  IF latest = Null \/ latest[1].date # day
  THEN [fetchAndStoreCurrencyRates(resp, byDate, latest, map) EXCEPT !.threw = FALSE]
  ELSE [threw |-> FALSE, data |-> Null, byDate |-> byDate, latest |-> latest,
        map |-> map, creates |-> <<>>, cleared |-> FALSE]

\* latest.rates[code] !== undefined
HasRate(rec, code) == rec # Null /\ HasProp(rec[1].rates, code)

\* getCurrencyRate(currencyCode) given the source's answer to a refetch.
\* result is <<rate>> or Null when the call throws.
getCurrencyRate(currencyCode, resp, byDate, latest, map) ==
  LET code == toUpperCase(IF currencyCode # "" THEN currencyCode ELSE ConfigPriceCurrency)
  IN
  IF code = "EUR"
  THEN [byDate |-> byDate, latest |-> latest, map |-> map,
        code |-> code, result |-> Some(1), reads |-> 0, fetches |-> 0, from |-> "eur"]
  ELSE IF Has(map, code)
  THEN [byDate |-> byDate, latest |-> latest, map |-> map,
        code |-> code, result |-> Some(map[code]), reads |-> 0, fetches |-> 0,
        from |-> "map"]
  ELSE IF HasRate(latest, code)
  THEN [byDate |-> byDate, latest |-> latest,
        map |-> Put(map, code, Prop(latest[1].rates, code)),
        code |-> code, result |-> Some(Prop(latest[1].rates, code)),
        reads |-> 1, fetches |-> 0, from |-> "latest"]
  ELSE
    LET f == fetchAndStoreCurrencyRates(resp, byDate, latest, map)
    IN  IF HasRate(f.data, code)
        THEN [byDate |-> f.byDate, latest |-> f.latest,
              map |-> Put(f.map, code, Prop(f.data[1].rates, code)),
              code |-> code, result |-> Some(Prop(f.data[1].rates, code)),
              reads |-> 1, fetches |-> 1, from |-> "refetch"]
        ELSE [byDate |-> f.byDate, latest |-> f.latest, map |-> f.map,
              code |-> code, result |-> Null, reads |-> 1, fetches |-> 1,
              from |-> "refetch"]

\* cleanupCurrencyCache(): drop currencies-<date> older than the keep window
cleanupCurrencyCache(byDate) ==
  Del(byDate, {d \in DOMAIN byDate : d <= day - KeepDays})

\* --------------------------------------------------------- price objects
\* PriceFetcher.dateWithOffset(offset): the date the upstream is asked for
dateWithOffset(offset) == day + offset

\* PriceFetcher.fetchPrices(dayOffset, preferSource): what the upstream can
\* answer: Null (the fetch throws) or the day object of the date asked for
fetchPrices(dayOffset, preferSource) ==
  {Null, Some([priceDate |-> dateWithOffset(dayOffset), src |-> preferSource])}

\* the currency answers available on the current day (Null: the fetch throws)
fetchCurrencies == {Null} \cup {Some(r) : r \in {x \in curFeed : x.date <= day}}

IdleCall == [pc |-> "idle", off |-> 0, prefer |-> "nordpool", date |-> 0,
             prices |-> Null, ret |-> Null, fetched |-> FALSE, created |-> FALSE,
             hit |-> FALSE, rates |-> "none"]
StartCall(off, prefer) == [IdleCall EXCEPT !.pc = "sf_check", !.off = off, !.prefer = prefer]

\* ---------------------------------------------- safeFetchAndProcess (steps)
\* the gate, the target date and the existence check
safeFetchAndProcess_Check(t) ==
  /\ ft[t].pc = "sf_check"
  /\ LET c == ft[t]
         targetDate == getDateForOffset(c.off)
     IN  ft' = [ft EXCEPT ![t] =
           IF c.off = 1 /\ ~shouldFetchNextDay
           THEN [c EXCEPT !.pc = "ret", !.ret = Null]
           ELSE IF cacheFails  \* priceDataExists throws: caught, null returned
           THEN [c EXCEPT !.pc = "ret", !.ret = Null, !.date = targetDate]
           ELSE IF Has(priceCache, targetDate)
                THEN [c EXCEPT !.pc = "sf_hit", !.date = targetDate]
                ELSE [c EXCEPT !.pc = "fp_ensure", !.date = targetDate]]
  /\ UNCHANGED <<day, clock, priceCache, retained, pubLog, apiMsg, cyc, curVars, envVars>>

\* return await priceManager.getPriceDataByDate(targetDate)
safeFetchAndProcess_Hit(t) ==
  /\ ft[t].pc = "sf_hit"
  /\ ft' = [ft EXCEPT ![t] = [@ EXCEPT !.pc = "ret",
                                       !.ret = IF cacheFails THEN Null
                                               ELSE Get(priceCache, ft[t].date)]]
  /\ UNCHANGED <<day, clock, priceCache, retained, pubLog, apiMsg, cyc, curVars, envVars>>

\* ------------------------------------------------- fetchPricesOnly (steps)
\* await ensureCacheReady(); await ensureCurrencyRates(); dateStr = ...
fetchPricesOnly_Ensure(t) ==
  /\ ft[t].pc = "fp_ensure"
  /\ \E resp \in fetchCurrencies :
       LET e == ensureCurrencyRates(resp, curByDate, curLatest, currencyRateCache)
           fetched == curLatest = Null \/ curLatest[1].date # day
       IN  /\ curByDate' = e.byDate
           /\ curLatest' = e.latest
           /\ currencyRateCache' = e.map
           /\ ft' = [ft EXCEPT ![t] =
                 IF e.threw  \* rethrown by fetchPricesOnly, null out of the caller
                 THEN [@ EXCEPT !.pc = "ret", !.ret = Null, !.rates = "threw"]
                 ELSE [@ EXCEPT !.pc = "fp_check",
                                !.date = getDateForOffset(ft[t].off),
                                !.rates = IF ~fetched THEN "fresh"
                                          ELSE IF resp = Null THEN "failed"
                                          ELSE "fetched"]]
  /\ UNCHANGED <<day, clock, priceCache, retained, pubLog, apiMsg, cyc, curCall, envVars>>

\* the existence check passed over: the upstream is asked whatever the cache holds
fetchPricesOnly_Check_Skipped(t) ==
  /\ ft[t].pc = "fp_check"
  /\ ft' = [ft EXCEPT ![t] = [@ EXCEPT !.pc = "fp_fetch"]]
  /\ UNCHANGED <<day, clock, priceCache, retained, pubLog, apiMsg, cyc, curVars, envVars>>

\* const exists = await this.priceDataExists(dateStr)
fetchPricesOnly_Check(t) ==
  /\ ft[t].pc = "fp_check"
  /\ ft' = [ft EXCEPT ![t] = [@ EXCEPT !.pc =
             IF cacheFails THEN "ret"  \* rethrown, null out of safeFetchAndProcess
             ELSE IF Has(priceCache, ft[t].date) THEN "fp_hit" ELSE "fp_fetch"]]
  /\ UNCHANGED <<day, clock, priceCache, retained, pubLog, apiMsg, cyc, curVars, envVars>>

\* return await this.priceCache.retrieveObject(this.getPriceKey(dateStr))
fetchPricesOnly_Hit(t) ==
  /\ ft[t].pc = "fp_hit"
  /\ ft' = [ft EXCEPT ![t] = [@ EXCEPT !.pc = "ret", !.hit = ~cacheFails,
                                       !.ret = IF cacheFails THEN Null
                                               ELSE Get(priceCache, ft[t].date)]]
  /\ UNCHANGED <<day, clock, priceCache, retained, pubLog, apiMsg, cyc, curVars, envVars>>

\* this.priceFetcher.fetchPrices(dayOffset, preferSource) is invoked
fetchPricesOnly_Invoke(t) ==
  /\ ft[t].pc = "fp_fetch"
  /\ ft' = [ft EXCEPT ![t] = [@ EXCEPT !.pc = "fp_wait", !.fetched = TRUE]]
  /\ UNCHANGED <<day, clock, priceCache, retained, pubLog, apiMsg, cyc, curVars, envVars>>

\* the upstream answers: the prices, or an error that fetchPricesOnly rethrows
\* and safeFetchAndProcess turns into null
fetchPricesOnly_Response(t) ==
  /\ ft[t].pc = "fp_wait"
  /\ \E resp \in fetchPrices(ft[t].off, ft[t].prefer) :
       ft' = [ft EXCEPT ![t] =
                IF resp = Null THEN [@ EXCEPT !.pc = "ret", !.ret = Null]
                ELSE [@ EXCEPT !.pc = "fp_create", !.prices = resp]]
  /\ UNCHANGED <<day, clock, priceCache, retained, pubLog, apiMsg, cyc, curVars, envVars>>

\* await this.priceCache.createObject(key, prices, true); return prices
fetchPricesOnly_Create(t) ==
  /\ ft[t].pc = "fp_create"
  /\ IF cacheFails  \* createObject throws: nothing written, null returned
     THEN /\ UNCHANGED priceCache
          /\ ft' = [ft EXCEPT ![t] = [@ EXCEPT !.pc = "ret", !.ret = Null]]
     ELSE /\ priceCache' = Put(priceCache, ft[t].date, ft[t].prices[1])
          /\ ft' = [ft EXCEPT ![t] = [@ EXCEPT !.pc = "ret", !.created = TRUE,
                                               !.ret = ft[t].prices]]
  /\ UNCHANGED <<day, clock, retained, pubLog, apiMsg, cyc, curVars, envVars>>

\* ------------------------------------------------------------ the broker
\* PublishTransport.publish as the broker applies it: a retained message with
\* a payload replaces the topic's retained message, one with the empty payload
\* clears it, a message that is not retained leaves the retained set alone
Deliver(ret, msg) ==
  IF ~msg.retain THEN ret
  ELSE IF msg.payload = <<>> THEN Del(ret, {msg.topic})
  ELSE Put(ret, msg.topic, msg.payload)

\* `${priceTopic}/${date}`
Topic(date) == <<PriceTopic, date>>
\* JSON.stringify(data, null, 2): the text of the object (never the empty string)
JSONstringify(data) == <<"json", data>>

\* mqttClient.publish(topic, JSON.stringify(data, null, 2), { retain: true, qos: 1 })
publishMessage(date, data) ==
  [topic |-> Topic(date), payload |-> JSONstringify(data), retain |-> TRUE, qos |-> 1]

\* a retraction sent without the retain flag
retractMessage_NotRetained(date) ==
  [topic |-> Topic(date), payload |-> <<>>, retain |-> FALSE, qos |-> 1]

\* mqttClient.publish(topic, "", { retain: true, qos: 1 })
retractMessage(date) ==
  [topic |-> Topic(date), payload |-> <<>>, retain |-> TRUE, qos |-> 1]

\* PriceManager.publishToMqtt(priceData): topic from priceData.priceDate
publishToMqttMessage(priceData) ==
  [topic |-> <<PriceTopic, priceData.priceDate>>, payload |-> JSONstringify(priceData),
   retain |-> TRUE, qos |-> 1]

\* the dates handleMqttPublishing names, as offsets from new Date()
isoDate(offset) == day + offset

\* the tomorrow branch with the unpublish moved to the front
tomorrowBranch_RetractFirst ==
  << [what |-> "yesterday", off |-> -1, retract |-> TRUE],
     [what |-> "today", off |-> 0, retract |-> FALSE],
     [what |-> "tomorrow", off |-> 1, retract |-> FALSE] >>

\* the else branch publishing today before yesterday
elseBranch_TodayFirst ==
  << [what |-> "today", off |-> 0, retract |-> FALSE],
     [what |-> "yesterday", off |-> -1, retract |-> FALSE],
     [what |-> "twoDaysAgo", off |-> -2, retract |-> TRUE] >>

\* if (tomorrowAvailable): today, tomorrow, then unpublish yesterday
tomorrowBranch ==
  << [what |-> "today", off |-> 0, retract |-> FALSE],
     [what |-> "tomorrow", off |-> 1, retract |-> FALSE],
     [what |-> "yesterday", off |-> -1, retract |-> TRUE] >>

\* else: yesterday, today, then unpublish two days ago
elseBranch ==
  << [what |-> "yesterday", off |-> -1, retract |-> FALSE],
     [what |-> "today", off |-> 0, retract |-> FALSE],
     [what |-> "twoDaysAgo", off |-> -2, retract |-> TRUE] >>

PublishPlan(tomorrowAvailable) == IF tomorrowAvailable THEN tomorrowBranch ELSE elseBranch

IdleCycle == [pc |-> "idle", i |-> 0, allow |-> FALSE, k |-> 1,
              tomorrowAvailable |-> FALSE, startNonEmpty |-> FALSE, pub |-> "none"]

\* ------------------------------------------------------ runFetchCycle (steps)
\* a cron task fires (or the service starts): allowNextDayFetch is evaluated
runFetchCycle_Start ==
  /\ cyc.pc = "idle"
  /\ cyc' = [cyc EXCEPT !.pc = "loop", !.i = 0 - (KeepDays - 1),
                        !.allow = shouldFetchNextDay]
  /\ UNCHANGED <<day, clock, priceCache, retained, pubLog, apiMsg, ft, curVars, envVars>>

\* the loop that hands every offset on, whatever the cache holds
runFetchCycle_Loop_Unchecked ==
  /\ cyc.pc = "loop"
  /\ IF cyc.i > 1
     THEN cyc' = [cyc EXCEPT !.pc = "sweep"] /\ UNCHANGED ft
     ELSE IF cyc.i = 1 /\ ~cyc.allow
     THEN cyc' = [cyc EXCEPT !.i = @ + 1] /\ UNCHANGED ft
     ELSE /\ cyc' = [cyc EXCEPT !.pc = "call"]
          /\ ft' = [ft EXCEPT !["cycle"] = StartCall(cyc.i, "nordpool")]
  /\ UNCHANGED <<day, clock, priceCache, retained, pubLog, apiMsg, curVars, envVars>>

\* one turn of for (let i = (keepDays - 1) * -1; i <= 1; i++); an exception
\* of the existence check is caught inside the turn
runFetchCycle_Loop ==
  /\ cyc.pc = "loop"
  /\ IF cyc.i > 1
     THEN cyc' = [cyc EXCEPT !.pc = "sweep"] /\ UNCHANGED ft
     ELSE IF cyc.i = 1 /\ ~cyc.allow
     THEN cyc' = [cyc EXCEPT !.i = @ + 1] /\ UNCHANGED ft
     ELSE IF cacheFails  \* priceDataExists throws into the catch of the loop body
     THEN cyc' = [cyc EXCEPT !.i = @ + 1] /\ UNCHANGED ft
     ELSE IF Has(priceCache, getDateForOffset(cyc.i))
     THEN cyc' = [cyc EXCEPT !.i = @ + 1] /\ UNCHANGED ft
     ELSE /\ cyc' = [cyc EXCEPT !.pc = "call"]
          /\ ft' = [ft EXCEPT !["cycle"] = StartCall(cyc.i, "nordpool")]
  /\ UNCHANGED <<day, clock, priceCache, retained, pubLog, apiMsg, curVars, envVars>>

\* the loop that gives up at the first offset that brought nothing
runFetchCycle_Return_StopOnNull ==
  /\ cyc.pc = "call"
  /\ ft["cycle"].pc = "ret"
  /\ cyc' = IF ft["cycle"].ret = Null THEN [cyc EXCEPT !.pc = "sweep"]
            ELSE [cyc EXCEPT !.pc = "loop", !.i = @ + 1]
  /\ ft' = [ft EXCEPT !["cycle"] = IdleCall]
  /\ UNCHANGED <<day, clock, priceCache, retained, pubLog, apiMsg, curVars, envVars>>

\* await safeFetchAndProcess(...) returns into the loop
runFetchCycle_Return ==
  /\ cyc.pc = "call"
  /\ ft["cycle"].pc = "ret"
  /\ cyc' = [cyc EXCEPT !.pc = "loop", !.i = @ + 1]
  /\ ft' = [ft EXCEPT !["cycle"] = IdleCall]
  /\ UNCHANGED <<day, clock, priceCache, retained, pubLog, apiMsg, curVars, envVars>>

\* PriceManager.cleanupOldCache(): the retention sweep of both caches
cleanupOldCache ==
  /\ cyc.pc = "sweep"
  /\ IF cacheFails  \* listing the keys throws, out of runFetchCycle
     THEN /\ UNCHANGED <<priceCache, curByDate>>
          /\ cyc' = IdleCycle
     ELSE /\ priceCache' = Del(priceCache, {d \in DOMAIN priceCache : d <= day - KeepDays})
          /\ curByDate' = cleanupCurrencyCache(curByDate)
          /\ cyc' = [cyc EXCEPT !.pc = "pub"]
  /\ UNCHANGED <<day, clock, retained, pubLog, apiMsg, ft, curLatest,
                 currencyRateCache, curCall, envVars>>

\* ------------------------------------------------ handleMqttPublishing (steps)
\* the early return, and the choice of the branch
handleMqttPublishing_Begin ==
  /\ cyc.pc = "pub"
  /\ IF ~enableMqtt
     THEN cyc' = IdleCycle /\ UNCHANGED pubLog
     ELSE IF cacheFails  \* reading the cache throws into the catch at the end
     THEN cyc' = [cyc EXCEPT !.pc = "pubend", !.pub = "failed"] /\ pubLog' = <<>>
     ELSE /\ cyc' = [cyc EXCEPT !.pc = "pubstep", !.k = 1, !.pub = "running",
                       !.tomorrowAvailable = Has(priceCache, isoDate(1)),
                       !.startNonEmpty = (DOMAIN retained # {})]
          /\ pubLog' = <<>>
  /\ UNCHANGED <<day, clock, priceCache, retained, apiMsg, ft, curVars, envVars>>

\* the if-blocks each in a try/catch of their own: a failed publish is passed
\* over and the next block runs
handleMqttPublishing_Step_GoesOn ==
  /\ cyc.pc = "pubstep"
  /\ LET plan == PublishPlan(cyc.tomorrowAvailable)
         s == plan[cyc.k]
         date == isoDate(s.off)
         data == Get(priceCache, date)
         next == IF cyc.k = Len(plan)
                 THEN [cyc EXCEPT !.pc = "pubend", !.pub = "done"]
                 ELSE [cyc EXCEPT !.k = @ + 1]
     IN  IF data = Null
         THEN cyc' = next /\ UNCHANGED <<retained, pubLog>>
         ELSE \E ok \in BOOLEAN :
                LET msg == IF s.retract THEN retractMessage(date)
                           ELSE publishMessage(date, data[1])
                IN  /\ pubLog' = Append(pubLog, [what |-> s.what, date |-> date,
                                                 msg |-> msg, ok |-> ok])
                    /\ retained' = IF ok THEN Deliver(retained, msg) ELSE retained
                    /\ cyc' = next
  /\ UNCHANGED <<day, clock, priceCache, apiMsg, ft, curVars, envVars>>

\* one of the three if-blocks of the branch: read the day from the cache and,
\* when it is there, publish or unpublish it; a failed publish throws into the
\* catch at the end of the function
handleMqttPublishing_Step ==
  /\ cyc.pc = "pubstep"
  /\ LET plan == PublishPlan(cyc.tomorrowAvailable)
         s == plan[cyc.k]
         date == isoDate(s.off)
         data == Get(priceCache, date)
         next == IF cyc.k = Len(plan)
                 THEN [cyc EXCEPT !.pc = "pubend", !.pub = "done"]
                 ELSE [cyc EXCEPT !.k = @ + 1]
     IN  IF cacheFails  \* getPriceDataByDate throws into the catch at the end
         THEN /\ cyc' = [cyc EXCEPT !.pc = "pubend", !.pub = "failed"]
              /\ UNCHANGED <<retained, pubLog>>
         ELSE IF data = Null
         THEN cyc' = next /\ UNCHANGED <<retained, pubLog>>
         ELSE \E ok \in BOOLEAN :
                LET msg == IF s.retract THEN retractMessage(date)
                           ELSE publishMessage(date, data[1])
                IN  /\ pubLog' = Append(pubLog, [what |-> s.what, date |-> date,
                                                 msg |-> msg, ok |-> ok])
                    /\ retained' = IF ok THEN Deliver(retained, msg) ELSE retained
                    /\ cyc' = IF ok THEN next
                              ELSE [cyc EXCEPT !.pc = "pubend", !.pub = "failed"]
  /\ UNCHANGED <<day, clock, priceCache, apiMsg, ft, curVars, envVars>>

\* handleMqttPublishing returns (normally or through its catch) and with it
\* runFetchCycle
handleMqttPublishing_Return ==
  /\ cyc.pc = "pubend"
  /\ cyc' = IdleCycle
  /\ pubLog' = <<>>
  /\ UNCHANGED <<day, clock, priceCache, retained, apiMsg, ft, curVars, envVars>>

\* PriceManager.fetchAndProcessPrices(dayOffset): the prices are fetched and
\* publishToMqtt hands the message to the transport
fetchAndProcessPrices(dayOffset) ==
  /\ enableMqtt
  /\ apiMsg = Null
  /\ ~apiCalled
  /\ apiCalled' = TRUE
  /\ \E resp \in fetchPrices(dayOffset, "nordpool") :
       /\ resp # Null
       /\ apiMsg' = Some(publishToMqttMessage(resp[1]))
  /\ UNCHANGED <<day, clock, priceCache, retained, pubLog, cyc, ft, curVars,
                 enableMqtt, scheduleEuMinutes, curFeed, restVars, normVars, rateCalls, sweepVars, dateCall>>

\* the transport acknowledges the message of publishToMqtt, or fails
publishToMqtt_Done ==
  /\ apiMsg # Null
  /\ \E ok \in BOOLEAN :
       retained' = IF ok THEN Deliver(retained, apiMsg[1]) ELSE retained
  /\ apiMsg' = Null
  /\ UNCHANGED <<day, clock, priceCache, pubLog, cyc, ft, curVars, envVars>>

\* --------------------------------------------- the ENTSO-E retry cron task
CronAt(hours, minutes) ==
  TimeSamples[clock][1] \in hours /\ TimeSamples[clock][2] \in minutes

\* the task body up to safeFetchAndProcess(priceManager, 1, "entsoe", config)
entsoeRetry_Fire ==
  /\ ft["entsoe"].pc = "idle"
  /\ CronAt(ScheduleHours, scheduleEuMinutes)
  /\ IF ~shouldFetchNextDay
     THEN ft' = [ft EXCEPT !["entsoe"] = [IdleCall EXCEPT !.pc = "ret", !.off = 1,
                                                       !.prefer = "entsoe"]]
     ELSE ft' = [ft EXCEPT !["entsoe"] = StartCall(1, "entsoe")]
  /\ UNCHANGED <<day, clock, priceCache, retained, pubLog, apiMsg, cyc, curVars, envVars>>

entsoeRetry_Return ==
  /\ ft["entsoe"].pc = "ret"
  /\ ft' = [ft EXCEPT !["entsoe"] = IdleCall]
  /\ UNCHANGED <<day, clock, priceCache, retained, pubLog, apiMsg, cyc, curVars, envVars>>

\* ----------------------------------------------------------------- time
Tick ==
  /\ clock < Len(TimeSamples)
  /\ clock' = clock + 1
  /\ UNCHANGED <<day, priceCache, retained, pubLog, apiMsg, cyc, ft, curVars, envVars>>

\* midnight, between cycles
DayAdvance ==
  /\ clock = Len(TimeSamples)
  /\ day < MaxDay
  /\ cyc.pc = "idle"
  /\ \A t \in Tasks : ft[t].pc = "idle"
  /\ day' = day + 1
  /\ clock' = 1
  /\ UNCHANGED <<priceCache, retained, pubLog, apiMsg, cyc, ft, curVars, envVars>>

\* ---------------------------------------------------------- specifications
IdleCurCall == [tick |-> 0, op |-> "none", arg |-> "", resp |-> Null, result |-> Null,
                reads |-> 0, fetches |-> 0, creates |-> <<>>, cleared |-> FALSE,
                threw |-> FALSE, existing |-> Null, hadRates |-> FALSE]

InitCommon ==
  /\ day = 0
  /\ clock = 1
  /\ priceCache = EmptyMap
  /\ retained = EmptyMap
  /\ pubLog = <<>>
  /\ apiMsg = Null
  /\ apiCalled = FALSE
  /\ cyc = IdleCycle
  /\ ft = [t \in Tasks |-> IdleCall]
  /\ curByDate = EmptyMap
  /\ curLatest = Null
  /\ currencyRateCache = EmptyMap
  /\ curCall = IdleCurCall
  /\ priceService = Null
  /\ cacheFails = FALSE
  /\ req = Null
  /\ res = Null
  /\ normIn = <<>>
  /\ normTarget = "1h"
  /\ normOut = Null
  /\ timeZone = "fixed"
  /\ storeCall = Null
  /\ cacheKeys = NoKeys
  /\ sweepCall = Null
  /\ rateCalls = NoRateCalls
  /\ dateCall = NoDateCall

FetchSteps(t) ==
  \/ safeFetchAndProcess_Check(t)
  \/ fetchPricesOnly_Ensure(t)
  \/ fetchPricesOnly_Check(t)
  \/ fetchPricesOnly_Invoke(t)
  \/ fetchPricesOnly_Response(t)
  \/ fetchPricesOnly_Create(t)

\* the service with MQTT enabled and no ENTSO-E retry scheduled
InitPub ==
  /\ InitCommon
  /\ enableMqtt = TRUE
  /\ scheduleEuMinutes = {}
  /\ curFeed = {[date |-> 0, rates |-> <<<<"NOK", 10>>>>, fetchedAt |-> 1]}

NextPub ==
  \/ runFetchCycle_Start
  \/ runFetchCycle_Loop
  \/ runFetchCycle_Return
  \/ cleanupOldCache
  \/ handleMqttPublishing_Begin
  \/ handleMqttPublishing_Step
  \/ handleMqttPublishing_Return
  \/ \E off \in {0, 1} : fetchAndProcessPrices(off)
  \/ publishToMqtt_Done
  \/ FetchSteps("cycle")
  \/ Tick
  \/ DayAdvance

SpecPub == InitPub /\ [][NextPub]_vars

\* the service with MQTT disabled and an ENTSO-E retry scheduled at minutes
\* 5 and 6 of the schedule hours
InitFetch ==
  /\ InitCommon
  /\ enableMqtt = FALSE
  /\ scheduleEuMinutes = {5, 6}
  /\ curFeed = {[date |-> 0, rates |-> <<<<"NOK", 10>>>>, fetchedAt |-> 1]}

NextFetch ==
  \/ runFetchCycle_Start
  \/ runFetchCycle_Loop
  \/ runFetchCycle_Return
  \/ cleanupOldCache
  \/ handleMqttPublishing_Begin
  \/ entsoeRetry_Fire
  \/ entsoeRetry_Return
  \/ \E t \in Tasks :
       \/ FetchSteps(t)
       \/ safeFetchAndProcess_Hit(t)
       \/ fetchPricesOnly_Hit(t)
  \/ Tick
  \/ DayAdvance

SpecFetch == InitFetch /\ [][NextFetch]_vars

\* the cache backend goes away or comes back: while it is away every call on
\* the price cache throws
Cache_Outage ==
  /\ cacheFails' = ~cacheFails
  /\ UNCHANGED <<day, clock, priceCache, retained, pubLog, apiMsg, cyc, ft, curVars,
                 enableMqtt, scheduleEuMinutes, curFeed, apiCalled, normVars, rateCalls, sweepVars,
                 priceService, req, res, storeCall, dateCall>>

\* the fetch cycle alone, MQTT enabled, with a cache backend that comes and
\* goes and an upstream that may fail
InitIso ==
  /\ InitCommon
  /\ enableMqtt = TRUE
  /\ scheduleEuMinutes = {}
  /\ curFeed = {[date |-> 0, rates |-> <<<<"NOK", 10>>>>, fetchedAt |-> 1]}

NextIso ==
  \/ runFetchCycle_Start
  \/ runFetchCycle_Loop
  \/ runFetchCycle_Return
  \/ cleanupOldCache
  \/ handleMqttPublishing_Begin
  \/ handleMqttPublishing_Step
  \/ handleMqttPublishing_Return
  \/ FetchSteps("cycle")
  \/ Cache_Outage
  \/ Tick
  \/ DayAdvance

SpecIso == InitIso /\ [][NextIso]_vars

\* ------------------------------------------- the currency calls, one by one
\* what the ECB feed can answer: the same rates with another key order or
\* another fetch timestamp, another NOK rate, USD missing, another date, and a
\* date old enough for the retention sweep
RatesNokUsd == << <<"NOK", 10>>, <<"USD", 1>> >>
RatesUsdNok == << <<"USD", 1>>, <<"NOK", 10>> >>
CurrencyAnswers ==
  { [date |-> -2, rates |-> RatesNokUsd, fetchedAt |-> 1],
    [date |-> 0, rates |-> RatesNokUsd, fetchedAt |-> 1],
    [date |-> 0, rates |-> RatesNokUsd, fetchedAt |-> 2],
    [date |-> 0, rates |-> RatesUsdNok, fetchedAt |-> 1],
    [date |-> 0, rates |-> << <<"NOK", 11>>, <<"USD", 1>> >>, fetchedAt |-> 1],
    [date |-> 0, rates |-> << <<"NOK", 10>> >>, fetchedAt |-> 1],
    [date |-> 1, rates |-> RatesNokUsd, fetchedAt |-> 2] }
\* the codes callers ask for
CodeArgs == {"eur", "", "USD", "SEK"}

\* PriceManager.fetchAndStoreCurrencyRates(), called on its own
Call_fetchAndStoreCurrencyRates ==
  /\ \E resp \in fetchCurrencies :
       LET f == fetchAndStoreCurrencyRates(resp, curByDate, curLatest, currencyRateCache)
       IN  /\ curByDate' = f.byDate
           /\ curLatest' = f.latest
           /\ currencyRateCache' = f.map
           /\ curCall' = [tick |-> 1 - curCall.tick, op |-> "fetchAndStore", arg |-> "",
                          resp |-> resp, result |-> f.data, reads |-> 1,
                          fetches |-> 1, creates |-> f.creates, cleared |-> f.cleared,
                          threw |-> f.threw,
                          existing |-> IF resp = Null THEN Null
                                       ELSE Get(curByDate, resp[1].date),
                          hadRates |-> DOMAIN currencyRateCache # {}]
  /\ UNCHANGED <<day, clock, priceCache, retained, pubLog, apiMsg, cyc, ft, envVars>>

\* PriceManager.ensureCurrencyRates(), as start() calls it
Call_ensureCurrencyRates ==
  /\ \E resp \in fetchCurrencies :
       LET e == ensureCurrencyRates(resp, curByDate, curLatest, currencyRateCache)
           fetched == curLatest = Null \/ curLatest[1].date # day
       IN  /\ curByDate' = e.byDate
           /\ curLatest' = e.latest
           /\ currencyRateCache' = e.map
           /\ curCall' = [tick |-> 1 - curCall.tick, op |-> "ensure", arg |-> "",
                          resp |-> IF fetched THEN resp ELSE Null, result |-> Null,
                          reads |-> 1, fetches |-> IF fetched THEN 1 ELSE 0,
                          creates |-> e.creates, cleared |-> e.cleared, threw |-> e.threw,
                          existing |-> Null, hadRates |-> FALSE]
  /\ UNCHANGED <<day, clock, priceCache, retained, pubLog, apiMsg, cyc, ft, envVars>>

\* PriceManager.getCurrencyRate(currencyCode), as the price fetcher calls it
Call_getCurrencyRate ==
  /\ \E arg \in CodeArgs, resp \in fetchCurrencies :
       LET g == getCurrencyRate(arg, resp, curByDate, curLatest, currencyRateCache)
       IN  /\ curByDate' = g.byDate
           /\ curLatest' = g.latest
           /\ currencyRateCache' = g.map
           /\ curCall' = [tick |-> 1 - curCall.tick, op |-> "getCurrencyRate", arg |-> arg,
                          resp |-> IF g.fetches = 1 THEN resp ELSE Null,
                          result |-> g.result, reads |-> g.reads, fetches |-> g.fetches,
                          creates |-> <<>>, cleared |-> FALSE, threw |-> g.result = Null,
                          existing |-> Null, hadRates |-> FALSE]
  /\ UNCHANGED <<day, clock, priceCache, retained, pubLog, apiMsg, cyc, ft, envVars>>

\* PriceManager.cleanupCurrencyCache(), at the end of a retention sweep
Call_cleanupCurrencyCache ==
  /\ curByDate' = cleanupCurrencyCache(curByDate)
  /\ UNCHANGED <<day, clock, priceCache, retained, pubLog, apiMsg, cyc, ft, envVars,
                 curLatest, currencyRateCache, curCall>>

\* the calendar date rolls over between two calls
Midnight ==
  /\ day < MaxDay
  /\ day' = day + 1
  /\ UNCHANGED <<clock, priceCache, retained, pubLog, apiMsg, cyc, ft, curVars, envVars>>

InitCur ==
  /\ InitCommon
  /\ enableMqtt = FALSE
  /\ scheduleEuMinutes = {}
  /\ curFeed = CurrencyAnswers

NextCur ==
  \/ Call_fetchAndStoreCurrencyRates
  \/ Call_ensureCurrencyRates
  \/ Call_getCurrencyRate
  \/ Call_cleanupCurrencyCache
  \/ Midnight

SpecCur == InitCur /\ [][NextCur]_vars

\* ------------------------------------------- currency rates around a fetch
\* fetchPricesOnly(dayOffset) entered from safeFetchAndProcess or a library user
Call_fetchPricesOnly ==
  /\ ft["cycle"].pc = "idle"
  /\ \E off \in {0, 1} :
       ft' = [ft EXCEPT !["cycle"] = [StartCall(off, "nordpool") EXCEPT !.pc = "fp_ensure"]]
  /\ UNCHANGED <<day, clock, priceCache, retained, pubLog, apiMsg, cyc, curVars, envVars>>

\* fetchPricesOnly has returned or thrown; the caller goes on
fetchPricesOnly_Return ==
  /\ ft["cycle"].pc = "ret"
  /\ ft' = [ft EXCEPT !["cycle"] = IdleCall]
  /\ UNCHANGED <<day, clock, priceCache, retained, pubLog, apiMsg, cyc, curVars, envVars>>

\* the rate source as the ensure step meets it: the record of the last banking
\* day, today's record, or an error
EnsureAnswers ==
  { [date |-> -1, rates |-> RatesNokUsd, fetchedAt |-> 1],
    [date |-> 0, rates |-> RatesNokUsd, fetchedAt |-> 2] }

InitEnsure ==
  /\ InitCommon
  /\ enableMqtt = FALSE
  /\ scheduleEuMinutes = {}
  /\ curFeed = EnsureAnswers

NextEnsure ==
  \/ Call_ensureCurrencyRates
  \/ Call_getCurrencyRate
  \/ Call_fetchPricesOnly
  \/ fetchPricesOnly_Ensure("cycle")
  \/ fetchPricesOnly_Check("cycle")
  \/ fetchPricesOnly_Hit("cycle")
  \/ fetchPricesOnly_Invoke("cycle")
  \/ fetchPricesOnly_Response("cycle")
  \/ fetchPricesOnly_Create("cycle")
  \/ fetchPricesOnly_Return

SpecEnsure == InitEnsure /\ [][NextEnsure]_vars

\* --------------------------------- currency calls, one step per await point
\* Each step is the code from one await to the next together with the effect of
\* the cache operation awaited; between two steps of a call the other call may
\* run. At most one fetchAndStoreCurrencyRates is in flight.
raceFrame == <<day, clock, priceCache, retained, pubLog, apiMsg, cyc, ft, curCall,
               enableMqtt, scheduleEuMinutes, curFeed, apiCalled, restVars, normVars,
               sweepVars, dateCall>>

\* the source answers; then existing = await retrieveObject(dateKey)
fetchAndStore_Response ==
  /\ rateCalls.store.pc = "fetch"
  /\ \E resp \in fetchCurrencies :
       rateCalls' = [rateCalls EXCEPT !.store =
         IF resp = Null THEN [@ EXCEPT !.pc = "done", !.threw = TRUE]
         ELSE [@ EXCEPT !.pc = "compare", !.data = resp,
                        !.existing = Get(curByDate, resp[1].date)]]
  /\ UNCHANGED <<curByDate, curLatest, currencyRateCache, raceFrame>>

\* hasChanges is computed, then createObject(dateKey) or has(latestKey) is awaited
fetchAndStore_Compare ==
  /\ rateCalls.store.pc = "compare"
  /\ LET f == rateCalls.store
         data == f.data[1]
         hasChanges == \/ f.existing = Null
                       \/ stableStringify(stripFetchedAt(f.existing[1]))
                            # stableStringify(stripFetchedAt(data))
     IN  IF hasChanges
         THEN /\ curByDate' = Put(curByDate, data.date, data)
              /\ rateCalls' = [rateCalls EXCEPT !.store.pc = "createLatest"]
              /\ UNCHANGED curLatest
         ELSE IF curLatest = Null
         THEN /\ curLatest' = f.existing  \* createObject(latestKey, existing) is next
              /\ rateCalls' = [rateCalls EXCEPT !.store.pc = "done"]
              /\ UNCHANGED curByDate
         ELSE /\ rateCalls' = [rateCalls EXCEPT !.store.pc = "done"]
              /\ UNCHANGED <<curByDate, curLatest>>
  /\ UNCHANGED <<currencyRateCache, raceFrame>>

\* await this.currencyCache.createObject(latestKey, data, true)
fetchAndStore_CreateLatest ==
  /\ rateCalls.store.pc = "createLatest"
  /\ curLatest' = rateCalls.store.data
  /\ rateCalls' = [rateCalls EXCEPT !.store.pc = "clear"]
  /\ UNCHANGED <<curByDate, currencyRateCache, raceFrame>>

\* this.currencyRateCache.clear(); return data
fetchAndStore_Clear ==
  /\ rateCalls.store.pc = "clear"
  /\ currencyRateCache' = EmptyMap
  /\ rateCalls' = [rateCalls EXCEPT !.store.pc = "done"]
  /\ UNCHANGED <<curByDate, curLatest, raceFrame>>

\* fetchAndStoreCurrencyRates() is entered by a caller of its own
\* (ensureCurrencyRates): await currencyCacheReady, fetchCurrencies()
Call_fetchAndStore_Start ==
  /\ rateCalls.store.pc = "idle"
  /\ rateCalls' = [rateCalls EXCEPT !.store = [NoRateCalls.store EXCEPT
                                                !.pc = "fetch", !.caller = "ensure"]]
  /\ UNCHANGED <<curByDate, curLatest, currencyRateCache, raceFrame>>

\* and takes its result or its error
Call_fetchAndStore_Return ==
  /\ rateCalls.store.pc = "done"
  /\ rateCalls.store.caller = "ensure"
  /\ rateCalls' = [rateCalls EXCEPT !.store = NoRateCalls.store]
  /\ UNCHANGED <<curByDate, curLatest, currencyRateCache, raceFrame>>

\* getCurrencyRate(currencyCode) up to await retrieveObject(latest)
getCurrencyRate_Start ==
  /\ rateCalls.get.pc = "idle"
  /\ \E currencyCode \in CodeArgs :
       LET code == toUpperCase(IF currencyCode # "" THEN currencyCode
                               ELSE ConfigPriceCurrency)
       IN  rateCalls' = [rateCalls EXCEPT !.get =
             IF code = "EUR"
             THEN [@ EXCEPT !.pc = "done", !.code = code, !.result = Some(1)]
             ELSE IF Has(currencyRateCache, code)
             THEN [@ EXCEPT !.pc = "done", !.code = code,
                            !.result = Some(currencyRateCache[code])]
             ELSE [@ EXCEPT !.pc = "read", !.code = code]]
  /\ UNCHANGED <<curByDate, curLatest, currencyRateCache, raceFrame>>

\* the read of currencies-latest takes effect
getCurrencyRate_Read ==
  /\ rateCalls.get.pc = "read"
  /\ rateCalls' = [rateCalls EXCEPT !.get.pc = "check", !.get.latest = curLatest]
  /\ UNCHANGED <<curByDate, curLatest, currencyRateCache, raceFrame>>

\* the code after the read: the rate is put into the map, or
\* fetchAndStoreCurrencyRates() is entered
getCurrencyRate_Check ==
  /\ rateCalls.get.pc = "check"
  /\ LET g == rateCalls.get
     IN  IF HasRate(g.latest, g.code)
         THEN /\ currencyRateCache' =
                   Put(currencyRateCache, g.code, Prop(g.latest[1].rates, g.code))
              /\ rateCalls' = [rateCalls EXCEPT !.get.pc = "done",
                      !.get.result = Some(Prop(g.latest[1].rates, g.code))]
         ELSE /\ rateCalls.store.pc = "idle"
              /\ rateCalls' = [rateCalls EXCEPT !.get.pc = "refetch",
                      !.store = [NoRateCalls.store EXCEPT !.pc = "fetch",
                                                          !.caller = "get"]]
              /\ UNCHANGED currencyRateCache
  /\ UNCHANGED <<curByDate, curLatest, raceFrame>>

\* latest = await this.fetchAndStoreCurrencyRates() has returned or thrown: the
\* rate is put into the map, or the call throws
getCurrencyRate_Refetched ==
  /\ rateCalls.get.pc = "refetch"
  /\ rateCalls.store.pc = "done"
  /\ rateCalls.store.caller = "get"
  /\ LET g == rateCalls.get
         latest == rateCalls.store.data
     IN  IF HasRate(latest, g.code)
         THEN /\ currencyRateCache' =
                   Put(currencyRateCache, g.code, Prop(latest[1].rates, g.code))
              /\ rateCalls' = [get |-> [g EXCEPT !.pc = "done", !.latest = latest,
                                          !.result = Some(Prop(latest[1].rates, g.code))],
                               store |-> NoRateCalls.store]
         ELSE /\ rateCalls' = [get |-> [g EXCEPT !.pc = "done", !.latest = latest,
                                                  !.result = Null],
                               store |-> NoRateCalls.store]
              /\ UNCHANGED currencyRateCache
  /\ UNCHANGED <<curByDate, curLatest, raceFrame>>

\* getCurrencyRate has returned its rate or thrown
getCurrencyRate_Return ==
  /\ rateCalls.get.pc = "done"
  /\ rateCalls' = [rateCalls EXCEPT !.get = NoRateCalls.get]
  /\ UNCHANGED <<curByDate, curLatest, currencyRateCache, raceFrame>>

\* what the rate source answers while the calls run: the day's record, and the
\* same day's record republished with another rate
RaceAnswers ==
  { [date |-> 0, rates |-> RatesNokUsd, fetchedAt |-> 1],
    [date |-> 0, rates |-> << <<"NOK", 11>>, <<"USD", 1>> >>, fetchedAt |-> 2] }

InitRace ==
  /\ InitCommon
  /\ enableMqtt = FALSE
  /\ scheduleEuMinutes = {}
  /\ curFeed = RaceAnswers

NextRace ==
  \/ Call_fetchAndStore_Start
  \/ fetchAndStore_Response
  \/ fetchAndStore_Compare
  \/ fetchAndStore_CreateLatest
  \/ fetchAndStore_Clear
  \/ Call_fetchAndStore_Return
  \/ getCurrencyRate_Start
  \/ getCurrencyRate_Read
  \/ getCurrencyRate_Check
  \/ getCurrencyRate_Refetched
  \/ getCurrencyRate_Return

SpecRace == InitRace /\ [][NextRace]_vars

\* ------------------------------------------------------------ REST: strings
\* the characters of the strings that occur in requests and in day objects
Chars(s) ==
  CASE s = "" -> <<>>
    [] s = "2025-10-14" -> <<"2", "0", "2", "5", "-", "1", "0", "-", "1", "4">>
    [] s = "2025-10-15" -> <<"2", "0", "2", "5", "-", "1", "0", "-", "1", "5">>
    [] s = "2025-10-16" -> <<"2", "0", "2", "5", "-", "1", "0", "-", "1", "6">>
    [] s = "2025-10-09" -> <<"2", "0", "2", "5", "-", "1", "0", "-", "0", "9">>
    [] s = "2025-10-10" -> <<"2", "0", "2", "5", "-", "1", "0", "-", "1", "0">>
    [] s = "2025-10-11" -> <<"2", "0", "2", "5", "-", "1", "0", "-", "1", "1">>
    [] s = "2025-10-12" -> <<"2", "0", "2", "5", "-", "1", "0", "-", "1", "2">>
    [] s = "2025-10-13" -> <<"2", "0", "2", "5", "-", "1", "0", "-", "1", "3">>
    [] s = "2025-10-17" -> <<"2", "0", "2", "5", "-", "1", "0", "-", "1", "7">>
    [] s = "2025-10-18" -> <<"2", "0", "2", "5", "-", "1", "0", "-", "1", "8">>
    [] s = "2025-13-45" -> <<"2", "0", "2", "5", "-", "1", "3", "-", "4", "5">>
    [] s = "2025-1-5" -> <<"2", "0", "2", "5", "-", "1", "-", "5">>
    [] s = "%zz" -> <<"%", "z", "z">>
    [] s = "daily" -> <<"d", "a", "i", "l", "y">>
    [] s = "hourly" -> <<"h", "o", "u", "r", "l", "y">>
    [] s = "avgPrice" -> <<"a", "v", "g", "P", "r", "i", "c", "e">>
    [] s = "spotPrice" -> <<"s", "p", "o", "t", "P", "r", "i", "c", "e">>
    [] s = "length" -> <<"l", "e", "n", "g", "t", "h">>
    [] s = "priceDate" -> <<"p", "r", "i", "c", "e", "D", "a", "t", "e">>
    [] s = "source" -> <<"s", "o", "u", "r", "c", "e">>
    [] s = "5" -> <<"5">>
    [] s = "23" -> <<"2", "3">>
    [] s = "24" -> <<"2", "4">>
    [] s = "99" -> <<"9", "9">>
    [] s = "%25" -> <<"%", "2", "5">>
    [] s = "%" -> <<"%">>
    [] s = "avg%2550rice" -> <<"a", "v", "g", "%", "2", "5", "5", "0", "r", "i", "c", "e">>
    [] s = "avg%50rice" -> <<"a", "v", "g", "%", "5", "0", "r", "i", "c", "e">>
    [] s = "cache" -> <<"c", "a", "c", "h", "e">>
    [] s = "current" -> <<"c", "u", "r", "r", "e", "n", "t">>
    [] s = "next" -> <<"n", "e", "x", "t">>
    [] s = "previous" -> <<"p", "r", "e", "v", "i", "o", "u", "s">>
    [] s = "getDayObject" -> <<"g", "e", "t", "D", "a", "y", "O", "b", "j", "e", "c", "t">>
    [] OTHER -> <<"?">>

\* /\d/, /[0-9]/
IsDigit(c) == c \in {"0", "1", "2", "3", "4", "5", "6", "7", "8", "9"}
DigitValue(c) ==
  CASE c = "0" -> 0 [] c = "1" -> 1 [] c = "2" -> 2 [] c = "3" -> 3 [] c = "4" -> 4
    [] c = "5" -> 5 [] c = "6" -> 6 [] c = "7" -> 7 [] c = "8" -> 8 [] c = "9" -> 9

\* /^[0-9]+$/.test(part), and the route pattern (\d+)
IsDigits(s) == Chars(s) # <<>> /\ \A n \in DOMAIN Chars(s) : IsDigit(Chars(s)[n])

RECURSIVE DecimalValue(_, _)
DecimalValue(cs, k) == IF k = 0 THEN 0 ELSE 10 * DecimalValue(cs, k - 1) + DigitValue(cs[k])
\* Number(part) and parseInt(part, 10) of a string of digits
NumberOf(s) == DecimalValue(Chars(s), Len(Chars(s)))

\* decodeURIComponent(s): Null when it throws URIError, else the decoded string
decodeURIComponent(s) ==
  CASE s = "%25" -> Some("%")
    [] s = "avg%2550rice" -> Some("avg%50rice")
    [] s = "avg%50rice" -> Some("avgPrice")
    [] s = "%" -> Null
    [] s = "%zz" -> Null
    [] OTHER -> Some(s)

\* every date string accepted
RestServer_isValidDate_Any(date) == TRUE

\* RestServer._isValidDate(date): /^\d{4}-\d{2}-\d{2}$/.test(date)
RestServer_isValidDate(date) ==
  LET c == Chars(date)
  IN  /\ Len(c) = 10
      /\ \A n \in 1..10 : IF n \in {5, 8} THEN c[n] = "-" ELSE IsDigit(c[n])

\* the ISO date string of a day number, and back (Null: no day of the model)
isoDateString(d) ==
  CASE d = -1 -> "2025-10-14" [] d = 0 -> "2025-10-15" [] d = 1 -> "2025-10-16"
    [] d = -2 -> "2025-10-13" [] d = -3 -> "2025-10-12" [] d = -4 -> "2025-10-11"
    [] d = -5 -> "2025-10-10" [] d = -6 -> "2025-10-09"
    [] d = 2 -> "2025-10-17" [] d = 3 -> "2025-10-18"
dayOfDateString(s) ==
  CASE s = "2025-10-14" -> Some(-1) [] s = "2025-10-15" -> Some(0)
    [] s = "2025-10-16" -> Some(1) [] s = "2025-10-17" -> Some(2)
    [] s = "2025-10-18" -> Some(3) [] s = "2025-10-13" -> Some(-2)
    [] s = "2025-10-12" -> Some(-3) [] s = "2025-10-11" -> Some(-4)
    [] s = "2025-10-10" -> Some(-5) [] s = "2025-10-09" -> Some(-6) [] OTHER -> Null

\* ------------------------------------------------------- REST: JSON values
\* a JSON value is <<kind, content>>; an object is the sequence of its
\* <<key, value>> properties; undefined is what a missing property reads as
JNum(n) == <<"num", n>>
JStr(s) == <<"str", s>>
JArr(items) == <<"arr", items>>
JObj(props) == <<"obj", props>>
undefined == <<"undefined", 0>>
IsUndefined(v) == v[1] = "undefined"

\* a price day object as stored: priceDate, daily block, 24 hourly entries;
\* source tells where the server found it
DayObject(d, source) ==
  JObj(<< <<"priceDate", JStr(isoDateString(d))>>,
          <<"source", JStr(source)>>,
          <<"daily", JObj(<< <<"avgPrice", JNum(123)>> >>)>>,
          <<"hourly", JArr([h \in 1..24 |-> JObj(<< <<"spotPrice", JNum(h - 1)>> >>)])>> >>)
\* a day object without a daily block
SparseDayObject(d, source) ==
  JObj(<< <<"priceDate", JStr(isoDateString(d))>>,
          <<"source", JStr(source)>>,
          <<"hourly", JArr([h \in 1..24 |-> JObj(<< <<"spotPrice", JNum(h - 1)>> >>)])>> >>)

\* Object.prototype.hasOwnProperty.call(cur, part)
hasOwnProperty(cur, part) ==
  CASE cur[1] = "obj" -> \E n \in DOMAIN cur[2] : cur[2][n][1] = part
    [] cur[1] = "arr" -> part = "length" \/ (IsDigits(part) /\ NumberOf(part) < Len(cur[2]))
    [] cur[1] = "str" ->
         part = "length" \/ (IsDigits(part) /\ NumberOf(part) < Len(Chars(cur[2])))
    [] OTHER -> FALSE

\* cur[part] for an own property
getProperty(cur, part) ==
  CASE cur[1] = "obj" -> cur[2][CHOOSE n \in DOMAIN cur[2] : cur[2][n][1] = part][2]
    [] cur[1] = "arr" ->
         IF part = "length" THEN JNum(Len(cur[2])) ELSE cur[2][NumberOf(part) + 1]
    [] cur[1] = "str" ->
         IF part = "length" THEN JNum(Len(Chars(cur[2])))
         ELSE JStr(Chars(cur[2])[NumberOf(part) + 1])

\* a path string is kept as what split("/") makes of it: "a/b" is <<"a", "b">>,
\* "" is <<"">>, "/" is <<"", "">>; PathText gives the string back
RECURSIVE PathText(_)
PathText(path) ==
  IF Len(path) = 0 THEN ""
  ELSE IF Len(path) = 1 THEN path[1]
  ELSE path[1] \o "/" \o PathText(Tail(path))

\* pathString.replace(/^\/+/, "")
RECURSIVE stripLeadingSlashes(_)
stripLeadingSlashes(path) ==
  IF Len(path) > 1 /\ path[1] = "" THEN stripLeadingSlashes(Tail(path)) ELSE path

\* the walk of _getByPath over the decoded parts, from part k on
RECURSIVE walkParts(_, _, _)
walkParts(cur, parts, k) ==
  IF k > Len(parts) THEN cur
  ELSE IF cur[1] \in {"null", "undefined"} THEN undefined
  ELSE LET part == parts[k]
       IN  IF cur[1] = "arr" /\ IsDigits(part)
           THEN walkParts(IF NumberOf(part) < Len(cur[2])
                          THEN cur[2][NumberOf(part) + 1] ELSE undefined, parts, k + 1)
           ELSE IF hasOwnProperty(cur, part)
           THEN walkParts(getProperty(cur, part), parts, k + 1)
           ELSE undefined

\* RestServer._getByPath(root, pathString): [threw, value]; threw when
\* decodeURIComponent throws on a part
getByPath(root, pathString) ==
  IF pathString = <<"">> \/ pathString = <<"", "">>
  THEN [threw |-> FALSE, value |-> root]
  ELSE LET raw == stripLeadingSlashes(pathString)
       IN  IF \E n \in DOMAIN raw : decodeURIComponent(raw[n]) = Null
           THEN [threw |-> TRUE, value |-> undefined]
           ELSE [threw |-> FALSE,
                 value |-> walkParts(root, [n \in DOMAIN raw |-> decodeURIComponent(raw[n])[1]], 1)]

\* ------------------------------------------------------ REST: the server
BasePath == <<"api", "prices">>
InfoText == "See REST API usage at https://github.com/iotux/elwiz-prices#rest-api-prices"

\* a slot of the day window: the date it is tagged with and its object
Slot(d, source) == Some([date |-> isoDateString(d), obj |-> DayObject(d, source)])
\* PriceService as RestServer uses it: the three slots, the objects
\* getDayObject(date) knows, and whether its accessors throw
\* throws: its slot accessors throw; getterThrows: getDayObject(date) throws
NoSlots == [current |-> Null, next |-> Null, previous |-> Null,
            dayObjects |-> EmptyMap, throws |-> FALSE, getterThrows |-> FALSE]

\* PriceService.isNextDayAvailable(): true iff the next slot is populated
isNextDayAvailable(ps) == ps.next # Null
\* PriceService.getCurrentPriceDate / getNextPriceDate / getPreviousPriceDate:
\* the date the slot is tagged with, Null when the slot is absent
getCurrentPriceDate(ps) == IF ps.current = Null THEN Null ELSE Some(ps.current[1].date)
getNextPriceDate(ps) == IF ps.next = Null THEN Null ELSE Some(ps.next[1].date)
getPreviousPriceDate(ps) == IF ps.previous = Null THEN Null ELSE Some(ps.previous[1].date)
\* PriceService.getCurrentDayObject / getNextDayObject / getPreviousDayObject:
\* the object, or Null for absent
getCurrentDayObject(ps) == IF ps.current = Null THEN Null ELSE Some(ps.current[1].obj)
getNextDayObject(ps) == IF ps.next = Null THEN Null ELSE Some(ps.next[1].obj)
getPreviousDayObject(ps) == IF ps.previous = Null THEN Null ELSE Some(ps.previous[1].obj)

\* RestServer._sendError(res, status, message)
sendError(status, message) ==
  [http |-> status,
   body |-> [isError |-> TRUE, status |-> status, error |-> message, info |-> InfoText,
             value |-> undefined]]

\* res.json(value): express answers 200 unless a status was set
json(value) ==
  [http |-> 200,
   body |-> [isError |-> FALSE, status |-> 0, error |-> "", info |-> "", value |-> value]]

\* a lookup that finds today's cached object whatever the date
fetchPriceObject_AlwaysFound(date) == Some(DayObject(0, "cache"))

\* a lookup that asks the cache alone
fetchPriceObject_CacheOnly(date) ==
  IF dayOfDateString(date) = Null THEN Null ELSE Get(priceCache, dayOfDateString(date)[1])

\* RestServer._fetchPriceObject(date): Null, or Some(object)
fetchPriceObject(date) ==
  LET ps == priceService
      \* 1) ps.getDayObject(date), its exception swallowed
      fromGetter ==
        IF ps # Null /\ ~ps[1].getterThrows /\ Has(ps[1].dayObjects, date)
        THEN Some(ps[1].dayObjects[date])
        ELSE Null
      \* 2) the three dates are read first, then each matching slot is
      \* asked for its object; an exception leaves the whole block
      serviceUsable == ps # Null /\ ~ps[1].throws
      currentDate == getCurrentPriceDate(ps[1])
      nextDate == IF isNextDayAvailable(ps[1]) THEN getNextPriceDate(ps[1]) ELSE Null
      previousDate == getPreviousPriceDate(ps[1])
      fromCurrent ==
        IF serviceUsable /\ currentDate = Some(date) THEN getCurrentDayObject(ps[1]) ELSE Null
      fromNext ==
        IF serviceUsable /\ nextDate = Some(date) THEN getNextDayObject(ps[1]) ELSE Null
      fromPrevious ==
        IF serviceUsable /\ previousDate = Some(date) THEN getPreviousDayObject(ps[1]) ELSE Null
      \* 3) the cache, its exception answered with null
      d == dayOfDateString(date)
      fromCache ==
        IF cacheFails THEN Null
        ELSE IF d = Null THEN Null
        ELSE Get(priceCache, d[1])
  IN  IF ~RestServer_isValidDate(date) THEN Null
      ELSE IF fromGetter # Null THEN fromGetter
      ELSE IF fromCurrent # Null THEN fromCurrent
      ELSE IF fromNext # Null THEN fromNext
      ELSE IF fromPrevious # Null THEN fromPrevious
      ELSE fromCache

\* `Path not found: ${normalized}` of the generic route
normalizedPath(path) ==
  IF Len(path) > 1 /\ path[1] = "" THEN PathText(path) ELSE "/" \o PathText(path)

\* the body the read routes share: service check, date check, hour check,
\* object lookup, path resolution. pathText is the path the 404 message names.
readRoute(date, hourValid, whole, path, pathText) ==
  IF priceService = Null
  THEN [out |-> sendError(500, "Price service not initialized"), lookedUp |-> FALSE]
  ELSE IF ~RestServer_isValidDate(date)
  THEN [out |-> sendError(400, "Invalid date format. Expected YYYY-MM-DD."),
        lookedUp |-> FALSE]
  ELSE IF ~hourValid
  THEN [out |-> sendError(400, "Invalid hour. Must be 0-23."), lookedUp |-> FALSE]
  ELSE LET obj == fetchPriceObject(date)
       IN  IF obj = Null
           THEN [out |-> sendError(404, "Price data not available for date: " \o date),
                 lookedUp |-> TRUE]
           ELSE IF whole
           THEN [out |-> json(obj[1]), lookedUp |-> TRUE]
           ELSE LET got == getByPath(obj[1], path)
                IN  IF got.threw
                    THEN [out |-> sendError(500, "URI malformed"), lookedUp |-> TRUE]
                    ELSE IF IsUndefined(got.value)
                    THEN [out |-> sendError(404, "Path not found: " \o pathText),
                          lookedUp |-> TRUE]
                    ELSE [out |-> json(got.value), lookedUp |-> TRUE]

\* ---- express: which route a request reaches
\* the segments of the URL below the base path (<<>> when it is not below it)
UnderBase(r) == Len(r.url) >= 2 /\ SubSeq(r.url, 1, 2) = BasePath
Rest(r) == SubSeq(r.url, 3, Len(r.url))

matchesDaily(r) == UnderBase(r) /\ Len(Rest(r)) = 2 /\ Rest(r)[2] = "daily"
matchesDailyElement(r) == UnderBase(r) /\ Len(Rest(r)) = 3 /\ Rest(r)[2] = "daily"
matchesHour(r) == UnderBase(r) /\ Len(Rest(r)) = 2 /\ IsDigits(Rest(r)[2])
matchesHourElement(r) == UnderBase(r) /\ Len(Rest(r)) = 3 /\ IsDigits(Rest(r)[2])
matchesGeneric(r) == UnderBase(r) /\ (Len(Rest(r)) >= 2 \/ (Len(Rest(r)) = 1 /\ r.slash))
matchesWholeDay(r) == UnderBase(r) /\ Len(Rest(r)) = 1

\* the generic route registered ahead of the shorthand routes
routeOf_GenericFirst(r) ==
  IF r.url = <<"health">> THEN "health"
  ELSE IF r.url = <<"api">> THEN "api"
  ELSE IF matchesGeneric(r) THEN "generic"
  ELSE IF matchesWholeDay(r) THEN "wholeDay"
  ELSE "fallback"

\* the routes in the order setupRoutes registers them; the first match wins
routeOf(r) ==
  IF r.url = <<"health">> THEN "health"
  ELSE IF r.url = <<"api">> THEN "api"
  ELSE IF matchesDaily(r) THEN "daily"
  ELSE IF matchesDailyElement(r) THEN "dailyElement"
  ELSE IF matchesHour(r) THEN "hour"
  ELSE IF matchesHourElement(r) THEN "hourElement"
  ELSE IF matchesGeneric(r) THEN "generic"
  ELSE IF matchesWholeDay(r) THEN "wholeDay"
  ELSE "fallback"

\* req.params[0] of the generic route, before decoding
starParam(r) == Tail(Rest(r)) \o (IF r.slash THEN <<"">> ELSE <<>>)

\* the raw parameter values express captures for the route
capturedParams(r) ==
  CASE routeOf(r) \in {"daily", "wholeDay", "hour"} -> <<Rest(r)[1]>>
    [] routeOf(r) \in {"dailyElement", "hourElement"} -> <<Rest(r)[1], Rest(r)[3]>>
    [] routeOf(r) = "generic" -> <<Rest(r)[1]>> \o starParam(r)
    [] OTHER -> <<>>
\* express decodes every captured parameter before the handler runs
paramsDecode(r) == \A n \in DOMAIN capturedParams(r) : decodeURIComponent(capturedParams(r)[n]) # Null
param(raw) == decodeURIComponent(raw)[1]

respond(route, result) ==
  /\ res' = Some([route |-> route, http |-> result.out.http, body |-> result.out.body,
                  lookedUp |-> result.lookedUp])
  /\ UNCHANGED <<day, clock, priceCache, retained, pubLog, apiMsg, cyc, ft, curVars,
                 enableMqtt, scheduleEuMinutes, curFeed, apiCalled, normVars, rateCalls, sweepVars, storeCall,
                 priceService, cacheFails, req, dateCall>>
dispatching(route) == req # Null /\ res = Null /\ routeOf(req[1]) = route /\ paramsDecode(req[1])

\* app.get("/health")
Route_health ==
  /\ dispatching("health")
  /\ respond("health", [out |-> json(JObj(<< <<"status", JStr("ok")>> >>)), lookedUp |-> FALSE])

\* app.get("/api"): a JSON body with status 501, sent with res.json
Route_api ==
  /\ dispatching("api")
  /\ respond("api",
       [out |-> [http |-> 200,
                 body |-> [isError |-> TRUE, status |-> 501,
                           error |-> "Endpoint not implemented. See documentation for available routes.",
                           info |-> InfoText, value |-> undefined]],
        lookedUp |-> FALSE])

\* app.get(`${basePath}/:date/daily`)
Route_daily ==
  /\ dispatching("daily")
  /\ respond("daily", readRoute(param(Rest(req[1])[1]), TRUE, FALSE, <<"daily">>, "/daily"))

\* app.get(`${basePath}/:date/daily/:element`)
Route_dailyElement ==
  /\ dispatching("dailyElement")
  /\ LET element == param(Rest(req[1])[3])
     IN  respond("dailyElement",
           readRoute(param(Rest(req[1])[1]), TRUE, FALSE, <<"daily", element>>,
                     "/daily/" \o element))

\* app.get(`${basePath}/:date/:hour(\\d+)`)
Route_hour ==
  /\ dispatching("hour")
  /\ LET hour == NumberOf(Rest(req[1])[2])
     IN  respond("hour",
           readRoute(param(Rest(req[1])[1]), hour >= 0 /\ hour <= 23, FALSE,
                     <<"hourly", ToString(hour)>>, "/hourly/" \o ToString(hour)))

\* app.get(`${basePath}/:date/:hour(\\d+)/:element`)
Route_hourElement ==
  /\ dispatching("hourElement")
  /\ LET hour == NumberOf(Rest(req[1])[2])
         element == param(Rest(req[1])[3])
     IN  respond("hourElement",
           readRoute(param(Rest(req[1])[1]), hour >= 0 /\ hour <= 23, FALSE,
                     <<"hourly", ToString(hour), element>>,
                     "/hourly/" \o ToString(hour) \o "/" \o element))

\* app.get(`${basePath}/:date/*`)
Route_generic ==
  /\ dispatching("generic")
  /\ LET path == [n \in DOMAIN starParam(req[1]) |-> param(starParam(req[1])[n])]
     IN  respond("generic",
           readRoute(param(Rest(req[1])[1]), TRUE, FALSE, path, normalizedPath(path)))

\* app.get(`${basePath}/:date`)
Route_wholeDay ==
  /\ dispatching("wholeDay")
  /\ respond("wholeDay", readRoute(param(Rest(req[1])[1]), TRUE, TRUE, <<"">>, ""))

\* the fallback 404 handler
Route_fallback ==
  /\ dispatching("fallback")
  /\ respond("fallback",
       [out |-> sendError(404, "Route not found: /" \o PathText(req[1].url)
                                \o (IF req[1].slash THEN "/" ELSE "")),
        lookedUp |-> FALSE])

\* the error handler: express could not decode a route parameter (status 400)
ErrorHandler ==
  /\ req # Null /\ res = Null
  /\ ~paramsDecode(req[1])
  /\ LET err == [status |-> Some(400), message |-> "Failed to decode param"]
         status == IF err.status # Null THEN err.status[1] ELSE 500
     IN  respond("errorHandler", [out |-> sendError(status, err.message), lookedUp |-> FALSE])

\* ---- the requests a client sends
DateParams == {"2025-10-15", "2025-10-16", "2025-13-45", "2025-1-5", "%zz"}
SegParams == {"daily", "hourly", "avgPrice", "spotPrice", "length", "5", "99", "%25",
              "avg%2550rice"}
RequestUrls ==
  {<<"health">>, <<"api">>, <<"api", "price", "2025-10-15">>, BasePath}
    \cup {BasePath \o <<d>> : d \in DateParams}
    \cup {BasePath \o <<d, a>> : d \in DateParams, a \in SegParams}
    \cup {BasePath \o <<d, a, b>> : d \in DateParams, a \in SegParams, b \in SegParams}
    \cup {BasePath \o <<d, "hourly", a, b>> : d \in DateParams, a \in {"5", "99"}, b \in SegParams}
    \cup {BasePath \o <<"2025-10-15", "priceDate", b>> : b \in {"length", "5", "99"}}

\* a GET request arrives
Receive ==
  /\ req = Null /\ res = Null
  /\ \E u \in RequestUrls, s \in BOOLEAN : req' = Some([url |-> u, slash |-> s])
  /\ UNCHANGED <<day, clock, priceCache, retained, pubLog, apiMsg, cyc, ft, curVars,
                 enableMqtt, scheduleEuMinutes, curFeed, apiCalled, normVars, rateCalls, sweepVars, storeCall,
                 priceService, cacheFails, res, dateCall>>

\* the response has gone out
Sent ==
  /\ res # Null
  /\ req' = Null
  /\ res' = Null
  /\ UNCHANGED <<day, clock, priceCache, retained, pubLog, apiMsg, cyc, ft, curVars,
                 enableMqtt, scheduleEuMinutes, curFeed, apiCalled, normVars, rateCalls, sweepVars, storeCall,
                 priceService, cacheFails, dateCall>>

\* the server as PriceManager wires it, or constructed without a price
\* service; the cache holds today, or today and tomorrow, or nothing
InitRest ==
  /\ day = 0
  /\ clock = 1
  /\ enableMqtt = FALSE
  /\ scheduleEuMinutes = {}
  /\ curFeed = {}
  /\ priceCache \in {EmptyMap,
                     [d \in {0} |-> DayObject(d, "cache")],
                     [d \in {0} |-> SparseDayObject(d, "cache")],
                     [d \in {0, 1} |-> DayObject(d, "cache")]}
  /\ retained = EmptyMap
  /\ pubLog = <<>>
  /\ apiMsg = Null
  /\ apiCalled = FALSE
  /\ cyc = IdleCycle
  /\ ft = [t \in Tasks |-> IdleCall]
  /\ curByDate = EmptyMap
  /\ curLatest = Null
  /\ currencyRateCache = EmptyMap
  /\ curCall = IdleCurCall
  /\ priceService \in {Null, Some(NoSlots),
                       Some([NoSlots EXCEPT !.current = Slot(0, "current"),
                                            !.next = Slot(1, "next")]),
                       Some([NoSlots EXCEPT !.current = Slot(0, "current"),
                                            !.throws = TRUE])}
  /\ cacheFails \in BOOLEAN
  /\ req = Null
  /\ res = Null
  /\ normIn = <<>>
  /\ normTarget = "1h"
  /\ normOut = Null
  /\ timeZone = "fixed"
  /\ storeCall = Null
  /\ cacheKeys = NoKeys
  /\ sweepCall = Null
  /\ rateCalls = NoRateCalls
  /\ dateCall = NoDateCall

NextRest ==
  \/ Receive
  \/ Route_health
  \/ Route_api
  \/ Route_daily
  \/ Route_dailyElement
  \/ Route_hour
  \/ Route_hourElement
  \/ Route_generic
  \/ Route_wholeDay
  \/ Route_fallback
  \/ ErrorHandler
  \/ Sent

SpecRest == InitRest /\ [][NextRest]_vars

\* ------------------------------------------------- the day-window store
\* PriceService (DayWindowStore): the slots previous / current / next, what
\* ingestion and the rollover check do to them, and the notifications they
\* emit. PriceManager and RestServer hold the same store.
slotsOf(ps) == [current |-> ps.current, next |-> ps.next, previous |-> ps.previous]

\* the rollover check that drops the current slot instead of keeping it
checkRollover_DropsCurrent(ps, today) ==
  IF ps.current # Null /\ dayOfDateString(ps.current[1].date)[1] < today
  THEN [ps |-> [ps EXCEPT !.previous = Null, !.current = ps.next, !.next = Null],
        emitted |-> <<"dayRollover">>]
  ELSE [ps |-> ps, emitted |-> <<>>]

\* the rollover check at wall-clock date today: the store it leaves and the
\* notifications it emits
checkRollover(ps, today) ==
  IF ps.current # Null /\ dayOfDateString(ps.current[1].date)[1] < today
  THEN [ps |-> [ps EXCEPT !.previous = ps.current, !.current = ps.next, !.next = Null],
        emitted |-> <<"dayRollover">>]
  ELSE [ps |-> ps, emitted |-> <<>>]

\* the slot a day object for date d goes to when ingested at date today
slotFor(d, today) ==
  CASE d = today - 1 -> "previous" [] d = today -> "current" [] d = today + 1 -> "next"

\* ingestion of a day object for date d at wall-clock date today
ingest(ps, d, today) ==
  [ps |-> [ps EXCEPT ![slotFor(d, today)] = Slot(d, slotFor(d, today))],
   emitted |-> <<"newPrices">>]

\* PriceService.getNextDayHourlyArray() / getNextDaySummary() on a populated slot
getNextDayHourlyArray(ps) == Prop(ps.next[1].obj[2], "hourly")
getNextDaySummary_ofStore(ps) == Prop(ps.next[1].obj[2], "daily")

\* getNextDayHourly that answers with the current day while the next is missing
getNextDayHourly_FromCurrent(ps) ==
  IF ps.next # Null THEN getNextDayHourlyArray(ps)
  ELSE IF ps.current # Null THEN Prop(ps.current[1].obj[2], "hourly")
  ELSE JArr(<<>>)

\* PriceManager.getAvailableDates()
getAvailableDates(ps) ==
  [today |-> getCurrentPriceDate(ps),
   tomorrow |-> IF isNextDayAvailable(ps) THEN getNextPriceDate(ps) ELSE Null,
   yesterday |-> getPreviousPriceDate(ps)]
\* PriceManager.getNextDayHourly()
getNextDayHourly(ps) ==
  IF isNextDayAvailable(ps) THEN getNextDayHourlyArray(ps) ELSE JArr(<<>>)
\* PriceManager.getNextDaySummary(): Null is null
getNextDaySummary(ps) ==
  IF isNextDayAvailable(ps) THEN Some(getNextDaySummary_ofStore(ps)) ELSE Null

\* what a call on the store leaves behind
StoreCall(op, arg, before, checked, emitted, threw, result) ==
  Some([op |-> op, arg |-> arg, today |-> day, before |-> before, checked |-> checked,
        emitted |-> emitted, threw |-> threw, result |-> result])
storeFrame ==
  UNCHANGED <<day, clock, priceCache, retained, pubLog, apiMsg, cyc, ft, curVars,
              enableMqtt, scheduleEuMinutes, curFeed, apiCalled, normVars, rateCalls, sweepVars,
              cacheFails, req, res, dateCall>>

\* a freshly calculated day object arrives
Ingest ==
  /\ priceService # Null
  /\ \E d \in {day - 1, day, day + 1} :
       LET done == ingest(priceService[1], d, day)
       IN  /\ priceService' = Some(done.ps)
           /\ storeCall' = StoreCall("ingest", isoDateString(d), slotsOf(priceService[1]),
                                     FALSE, done.emitted, FALSE, Null)
  /\ storeFrame

\* the scheduled tick runs the rollover check
Tick_checkRollover ==
  /\ priceService # Null
  /\ LET done == checkRollover(priceService[1], day)
     IN  /\ priceService' = Some(done.ps)
         /\ storeCall' = StoreCall("checkRollover", "", slotsOf(priceService[1]),
                                   TRUE, done.emitted, FALSE, Null)
  /\ storeFrame

\* an external access: the rollover check may run first (checked), then the
\* accessor reads the store; a store whose accessors throw makes the call throw
access(op, checked, read(_)) ==
  /\ LET done == IF checked THEN checkRollover(priceService[1], day)
                 ELSE [ps |-> priceService[1], emitted |-> <<>>]
     IN  /\ priceService' = Some(done.ps)
         /\ storeCall' = IF done.ps.throws
                         THEN StoreCall(op, "", slotsOf(priceService[1]), checked,
                                        done.emitted, TRUE, Null)
                         ELSE StoreCall(op, "", slotsOf(priceService[1]), checked,
                                        done.emitted, FALSE, read(done.ps))
  /\ storeFrame

Call_isNextDayAvailable ==
  /\ priceService # Null
  /\ \E checked \in BOOLEAN : access("isNextDayAvailable", checked, isNextDayAvailable)
Call_getAvailableDates ==
  /\ priceService # Null
  /\ \E checked \in BOOLEAN : access("getAvailableDates", checked, getAvailableDates)
Call_getNextDayHourly ==
  /\ priceService # Null
  /\ \E checked \in BOOLEAN : access("getNextDayHourly", checked, getNextDayHourly)
Call_getNextDaySummary ==
  /\ priceService # Null
  /\ \E checked \in BOOLEAN : access("getNextDaySummary", checked, getNextDaySummary)

\* RestServer._fetchPriceObject(date) for a date a request names
Call_fetchPriceObject ==
  /\ priceService # Null
  /\ \E d \in 0..MaxDay :
       storeCall' = StoreCall("fetchPriceObject", isoDateString(d), slotsOf(priceService[1]),
                              FALSE, <<>>, FALSE, fetchPriceObject(isoDateString(d)))
  /\ UNCHANGED priceService
  /\ storeFrame

\* the stores the server can be wired to at start: no day loaded, what
\* getDayObject(date) knows, and whether its accessors throw
InitialStores ==
  {[NoSlots EXCEPT !.dayObjects = known, !.throws = t, !.getterThrows = g] :
     known \in {EmptyMap, [date \in {isoDateString(0)} |-> DayObject(0, "getDayObject")]},
     t \in BOOLEAN, g \in BOOLEAN}

InitStore ==
  /\ day = 0
  /\ clock = 1
  /\ enableMqtt = FALSE
  /\ scheduleEuMinutes = {}
  /\ curFeed = {}
  /\ priceCache \in {EmptyMap, [d \in {0, 1} |-> DayObject(d, "cache")]}
  /\ retained = EmptyMap
  /\ pubLog = <<>>
  /\ apiMsg = Null
  /\ apiCalled = FALSE
  /\ cyc = IdleCycle
  /\ ft = [t \in Tasks |-> IdleCall]
  /\ curByDate = EmptyMap
  /\ curLatest = Null
  /\ currencyRateCache = EmptyMap
  /\ curCall = IdleCurCall
  /\ priceService \in {Some(store) : store \in InitialStores}
  /\ cacheFails = FALSE
  /\ req = Null
  /\ res = Null
  /\ normIn = <<>>
  /\ normTarget = "1h"
  /\ normOut = Null
  /\ timeZone = "fixed"
  /\ storeCall = Null
  /\ cacheKeys = NoKeys
  /\ sweepCall = Null
  /\ rateCalls = NoRateCalls
  /\ dateCall = NoDateCall

NextStore ==
  \/ Ingest
  \/ Tick_checkRollover
  \/ Call_isNextDayAvailable
  \/ Call_getAvailableDates
  \/ Call_getNextDayHourly
  \/ Call_getNextDaySummary
  \/ Call_fetchPriceObject
  \/ Midnight

SpecStore == InitStore /\ [][NextStore]_vars

\* ------------------------------------------ the retention sweep, key by key
\* A key of an ObjectCache store is [prefix, rest]: key.startsWith(P) is
\* prefix = P, and key.slice(P.length) is rest. Instants are minutes UTC
\* counted from 2025-10-15T00:00Z (day 0); the zone keeps one offset.
PRICE_KEY_PREFIX == "prices-"
CURRENCY_KEY_PREFIX == "currencies-"
Key(prefix, rest) == [prefix |-> prefix, rest |-> rest]
MinutesOf(days) == days * 24 * 60

\* new Date(dateStr): the UTC midnight of a YYYY-MM-DD text, Null for Invalid Date
newDate(dateStr) ==
  LET d == dayOfDateString(dateStr)
  IN  IF d = Null THEN Null ELSE Some(MinutesOf(d[1]))
\* new Date() when the local clock shows hm on the current day, in a zone
\* off minutes east of UTC
nowAt(hm, off) == MinutesOf(day) + hm[1] * 60 + hm[2] - off
\* cutoffDate.setDate(cutoffDate.getDate() - keepDays)
cutoffDate(now, keepDays) == now - MinutesOf(keepDays)
\* fileDate < cutoffDate: false when fileDate is Invalid Date
isBefore(fileDate, cutoff) == fileDate # Null /\ fileDate[1] < cutoff

\* the sweep that looks at the date and not at the prefix
cleanupOldCacheKeys_AnyPrefix(keys, now) ==
  {key \in keys : ~isBefore(newDate(key.rest), cutoffDate(now, KeepDays))}

\* cleanupOldCache(): the keys of the price store it leaves
cleanupOldCacheKeys(keys, now) ==
  {key \in keys :
     ~(/\ key.prefix = PRICE_KEY_PREFIX
       /\ isBefore(newDate(key.rest), cutoffDate(now, KeepDays)))}

\* cleanupCurrencyCache(): the keys of the currency store it leaves
cleanupCurrencyCacheKeys(keys, now, currencyKeepDays) ==
  {key \in keys :
     ~(/\ key.prefix = CURRENCY_KEY_PREFIX
       /\ key.rest # "latest"
       /\ newDate(key.rest) # Null
       /\ isBefore(newDate(key.rest), cutoffDate(now, currencyKeepDays)))}

\* the dates around the two cutoffs of day 0
SweepDates == {-(KeepDays + 1), -KeepDays, -(KeepDays - 1), -(KeepDays - 2), 0}
\* keys that are no dated entry of the store they are in
OddKeys(own, foreign) ==
  {Key(own, "latest"), Key(own, "index"), Key("meta-", isoDateString(-(KeepDays + 1))),
   Key(foreign, isoDateString(-(KeepDays + 1)))}
StoredKeys ==
  {[prices |-> {Key(PRICE_KEY_PREFIX, isoDateString(d)) : d \in dates}
                 \cup OddKeys(PRICE_KEY_PREFIX, CURRENCY_KEY_PREFIX),
    currencies |-> {Key(CURRENCY_KEY_PREFIX, isoDateString(d)) : d \in dates}
                     \cup OddKeys(CURRENCY_KEY_PREFIX, PRICE_KEY_PREFIX)] :
     dates \in SUBSET SweepDates}
\* times of day a sweep runs at, and zone offsets in minutes east of UTC
SweepTimes == {<<1, 0>>, <<13, 5>>, <<20, 0>>}
ZoneOffsets == {-300, 120}

\* PriceManager.cleanupOldCache(): the sweep of the price store, then
\* cleanupCurrencyCache()
Call_cleanupOldCache ==
  /\ sweepCall = Null
  /\ \E hm \in SweepTimes, off \in ZoneOffsets, currencyKeepDays \in {KeepDays - 1, KeepDays} :
       LET now == nowAt(hm, off)
       IN  /\ cacheKeys' =
                [prices |-> cleanupOldCacheKeys(cacheKeys.prices, now),
                 currencies |-> cleanupCurrencyCacheKeys(cacheKeys.currencies, now,
                                                         currencyKeepDays)]
           /\ sweepCall' = Some([now |-> now, currencyKeepDays |-> currencyKeepDays,
                                 before |-> cacheKeys, today |-> day])
  /\ UNCHANGED <<day, clock, priceCache, retained, pubLog, apiMsg, cyc, ft, curVars,
                 enableMqtt, scheduleEuMinutes, curFeed, apiCalled, restVars, normVars, rateCalls, dateCall>>

\* the next cycle is due
Sweep_Return ==
  /\ sweepCall # Null
  /\ sweepCall' = Null
  /\ UNCHANGED <<day, clock, priceCache, retained, pubLog, apiMsg, cyc, ft, curVars,
                 enableMqtt, scheduleEuMinutes, curFeed, apiCalled, restVars, normVars, rateCalls,
                 cacheKeys, dateCall>>

InitSweep ==
  /\ day = 0
  /\ clock = 1
  /\ enableMqtt = FALSE
  /\ scheduleEuMinutes = {}
  /\ curFeed = {}
  /\ priceCache = EmptyMap
  /\ retained = EmptyMap
  /\ pubLog = <<>>
  /\ apiMsg = Null
  /\ apiCalled = FALSE
  /\ cyc = IdleCycle
  /\ ft = [t \in Tasks |-> IdleCall]
  /\ curByDate = EmptyMap
  /\ curLatest = Null
  /\ currencyRateCache = EmptyMap
  /\ curCall = IdleCurCall
  /\ priceService = Null
  /\ cacheFails = FALSE
  /\ req = Null
  /\ res = Null
  /\ normIn = <<>>
  /\ normTarget = "1h"
  /\ normOut = Null
  /\ timeZone = "fixed"
  /\ storeCall = Null
  /\ cacheKeys \in StoredKeys
  /\ sweepCall = Null
  /\ rateCalls = NoRateCalls
  /\ dateCall = NoDateCall

NextSweep ==
  \/ Call_cleanupOldCache
  \/ Sweep_Return
  \/ Midnight

SpecSweep == InitSweep /\ [][NextSweep]_vars

\* ------------------------------------------------ the interval normalizer
\* Time is counted in minutes from 2025-10-25T22:00Z, which is 00:00 on
\* 2025-10-26 in a zone two hours ahead of UTC. The zone "fixed" keeps the
\* offset WinterOffset throughout; the zone "fallback" is on SummerOffset
\* until TransitionMinute (01:00Z, when 03:00 local becomes 02:00) and on
\* WinterOffset from then on.
MsPerMinute == 60000
SummerOffset == 120
WinterOffset == 60
TransitionMinute == 180
Zones == {"fixed", "fallback"}

\* Date.prototype.getTimezoneOffset, as minutes ahead of UTC, at a UTC minute
getTimezoneOffset(min) ==
  IF timeZone = "fallback" /\ min < TransitionMinute THEN SummerOffset ELSE WinterOffset

\* ECMAScript UTC(t): the UTC minute of a local minute; a local time that
\* occurs twice is read with the offset in force before the transition
UTC(localMin) ==
  IF timeZone = "fallback" /\ localMin - SummerOffset < TransitionMinute
  THEN localMin - SummerOffset
  ELSE localMin - WinterOffset

\* timestamps as they appear in a point: null, a string that is no date, or
\* an ISO string (the minute it names, the offset it is written with, and
\* the milliseconds past the minute)
TNull == [tag |-> "null", min |-> 0, off |-> 0, ms |-> 0]
TBad == [tag |-> "bad", min |-> 0, off |-> 0, ms |-> 0]
TIso(min, off, ms) == [tag |-> "iso", min |-> min, off |-> off, ms |-> ms]

\* date-fns parseISO(value).getTime(): Null for an Invalid Date
parseISO(value) ==
  IF value.tag = "iso" THEN Some(value.min * MsPerMinute + value.ms) ELSE Null

\* date-fns formatISO(date, {representation: "complete"}): local time with
\* the local offset, to the second
formatISO(t) ==
  TIso(t \div MsPerMinute, getTimezoneOffset(t \div MsPerMinute),
       ((t % MsPerMinute) \div 1000) * 1000)

\* Date.prototype.getMinutes: the minute of the local hour
getMinutes(t) == ((t \div MsPerMinute) + getTimezoneOffset(t \div MsPerMinute)) % 60

\* Date.prototype.setMinutes(m): the local time with its minute replaced
\* (seconds kept), read back as an instant
setMinutes(t, m) ==
  LET local == (t \div MsPerMinute) + getTimezoneOffset(t \div MsPerMinute)
  IN  UTC(local - (local % 60) + m) * MsPerMinute + (t % MsPerMinute)

\* numbers: a fraction <<numerator, denominator>> in lowest terms; NaN
NaN == <<0, 0>>
RECURSIVE GCD(_, _)
GCD(a, b) == IF b = 0 THEN a ELSE GCD(b, a % b)
Abs(n) == IF n < 0 THEN -n ELSE n
Rat(n, d) ==
  LET g == GCD(Abs(n), d) IN IF g = 0 THEN <<0, 1>> ELSE <<n \div g, d \div g>>
RatAdd(a, b) == Rat(a[1] * b[2] + b[1] * a[2], a[2] * b[2])
RatDiv(a, k) == Rat(a[1], a[2] * k)

\* raw values of a point: a number, a text that is no number, null, undefined
VNum(n) == [tag |-> "num", n |-> n]
VText == [tag |-> "text", n |-> 0]
VNull == [tag |-> "null", n |-> 0]
VUndefined == [tag |-> "undefined", n |-> 0]
\* a number that is no integer, as a returned series carries it
VFraction(n, d) == [tag |-> "fraction", n |-> n, d |-> d]

\* Number(point.value)
Number(v) ==
  CASE v.tag = "num" -> <<v.n, 1>>
    [] v.tag = "fraction" -> Rat(v.n, v.d)
    [] v.tag = "null" -> <<0, 1>>
    [] OTHER -> NaN

\* Math.round(a / b) for b > 0: halves go up
MathRound(a, b) == (2 * a + b) \div (2 * b)
Max(a, b) == IF a >= b THEN a ELSE b

\* toLocalIso(value)
toLocalIso(value) ==
  IF value.tag = "null" THEN value
  ELSE IF parseISO(value) = Null THEN value
  ELSE formatISO(parseISO(value)[1])

\* isValidDate(value)
isValidDate(value) == parseISO(value) # Null

\* a value computed once and handed to what uses it
With(v, F(_)) == CHOOSE out \in {F(bound) : bound \in {v}} : TRUE

\* Array.prototype.sort with the comparator (a, b) => parseISO(a.start) -
\* parseISO(b.start): a stable sort, so an entry comes after the entries that
\* start earlier and after those of the same start that stood before it
sortByStart(entries) ==
  With(entries, LAMBDA s :
  With([i \in DOMAIN s |-> parseISO(s[i].start)[1]], LAMBDA time :
  With([i \in DOMAIN s |->
          1 + Cardinality({j \in DOMAIN s :
                             time[j] < time[i] \/ (time[j] = time[i] /\ j < i)})],
       LAMBDA rank : [k \in DOMAIN s |-> s[CHOOSE i \in DOMAIN s : rank[i] = k]])))

\* an element of points that is null, and what reading point.start does to
\* it: a TypeError leaves normalizeSeries
NullElement == [null |-> TRUE]
isNullElement(point) == "start" \notin DOMAIN point
throwsTypeError(points) == \E k \in DOMAIN points : isNullElement(points[k])

\* normalizeSeries, lines 8-23: map, filter, sort
mapPoint(point) ==
  [start |-> toLocalIso(point.start), end |-> toLocalIso(point.end),
   value |-> Number(point.value), currency |-> point.currency]
keepPoint(point) ==
  /\ point.start.tag # "null"
  /\ point.end.tag # "null"
  /\ point.value # NaN
  /\ isValidDate(point.start)
  /\ isValidDate(point.end)
sorted(points) ==
  sortByStart(SelectSeq([k \in DOMAIN points |-> mapPoint(points[k])], keepPoint))

\* a detectInterval that answers the count heuristic for short series
detectInterval_CountForShort(points) ==
  IF Len(points) < 2
  THEN IF Len(points) > 48 THEN Some("15m") ELSE Some("1h")
  ELSE LET diffMinutes == MathRound(parseISO(points[2].start)[1]
                                      - parseISO(points[1].start)[1], MsPerMinute)
       IN  IF diffMinutes = 15 THEN Some("15m")
           ELSE IF diffMinutes = 60 THEN Some("1h")
           ELSE IF Len(points) > 48 THEN Some("15m") ELSE Some("1h")

\* detectInterval(points): Null, Some("15m") or Some("1h")
detectInterval(points) ==
  IF Len(points) < 2 THEN Null
  ELSE LET diffMinutes == MathRound(parseISO(points[2].start)[1]
                                      - parseISO(points[1].start)[1], MsPerMinute)
       IN  IF diffMinutes = 15 THEN Some("15m")
           ELSE IF diffMinutes = 60 THEN Some("1h")
           ELSE IF Len(points) > 48 THEN Some("15m") ELSE Some("1h")

\* aggregateToHourly: the key of a point's bucket, the instant its local
\* hour starts (hourStart.setMinutes(0, 0, 0); hourStart.toISOString())
bucketKey(point) ==
  setMinutes(parseISO(point.start)[1] - (parseISO(point.start)[1] % MsPerMinute), 0)

\* the sum the loop accumulates over the points at the given positions
RECURSIVE sumValues(_, _, _)
sumValues(points, at, k) ==
  IF k > Len(at) THEN <<0, 1>>
  ELSE RatAdd(points[at[k]].value, sumValues(points, at, k + 1))

\* aggregateToHourly: the bucket the loop has built for the key of the point
\* at position first, once it has run over all points. The bucket starts
\* from that point; start moves only to a strictly earlier start, end only
\* to a strictly later end, and currency is filled from the first point
\* that has one.
bucketOf(points, keyAt, first) ==
  With(SelectSeq([i \in DOMAIN points |-> i], LAMBDA i : keyAt[i] = keyAt[first]),
       LAMBDA at :
         LET startOf(n) == parseISO(points[at[n]].start)[1]
             endOf(n) == parseISO(points[at[n]].end)[1]
             earliest == CHOOSE n \in DOMAIN at :
                           /\ \A m \in DOMAIN at : startOf(n) <= startOf(m)
                           /\ \A m \in 1..(n - 1) : startOf(m) > startOf(n)
             latest == CHOOSE n \in DOMAIN at :
                         /\ \A m \in DOMAIN at : endOf(n) >= endOf(m)
                         /\ \A m \in 1..(n - 1) : endOf(m) < endOf(n)
             named == {n \in DOMAIN at : points[at[n]].currency # ""}
         IN  [key |-> keyAt[first],
              start |-> points[at[earliest]].start,
              end |-> points[at[latest]].end,
              sum |-> sumValues(points, at, 1),
              count |-> Len(at),
              currency |-> IF named = {} THEN ""
                           ELSE points[at[CHOOSE n \in named :
                                            \A m \in named : n <= m]].currency])

\* the buckets in the order the Map holds them: by first appearance of the key
buckets(points) ==
  With([i \in DOMAIN points |-> bucketKey(points[i])], LAMBDA keyAt :
  With(SelectSeq([i \in DOMAIN points |-> i],
                 LAMBDA i : \A j \in 1..(i - 1) : keyAt[j] # keyAt[i]),
       LAMBDA firsts : [n \in DOMAIN firsts |-> bucketOf(points, keyAt, firsts[n])]))

\* aggregateToHourly(points)
aggregateToHourly(series) ==
  With(series, LAMBDA points :
  With(sortByStart(buckets(points)), LAMBDA ordered :
    [k \in DOMAIN ordered |->
       [start |-> ordered[k].start, end |-> ordered[k].end,
        value |-> RatDiv(ordered[k].sum, ordered[k].count),
        currency |-> ordered[k].currency]]))

\* expandToQuarterHour: the number of slices of one point
slicesOf(point) ==
  IF point.end.tag = "null" THEN Max(1, MathRound(60, 15))
  ELSE IF parseISO(point.end) = Null THEN 0
  ELSE Max(1, MathRound(
         Max(15, MathRound(parseISO(point.end)[1] - parseISO(point.start)[1], MsPerMinute)),
         15))

\* expandToQuarterHour: the slice of a point at an index (from 0)
sliceAt(point, index) ==
  LET baseStart == parseISO(point.start)[1]
      sliceStart == setMinutes(baseStart, getMinutes(baseStart) + index * 15)
      sliceEnd == setMinutes(sliceStart, getMinutes(sliceStart) + 15)
  IN  [start |-> formatISO(sliceStart), end |-> formatISO(sliceEnd),
       value |-> RatDiv(point.value, slicesOf(point)), currency |-> point.currency]
\* the slices pushed for the points lo..hi, in the order the loops push them
RECURSIVE expanded(_, _, _)
expanded(points, lo, hi) ==
  IF lo > hi THEN <<>>
  ELSE IF lo = hi THEN [i \in 1..slicesOf(points[lo]) |-> sliceAt(points[lo], i - 1)]
  ELSE expanded(points, lo, (lo + hi) \div 2) \o expanded(points, (lo + hi) \div 2 + 1, hi)

\* expandToQuarterHour(points)
expandToQuarterHour(series) ==
  With(series, LAMBDA points : sortByStart(expanded(points, 1, Len(points))))

\* normalizeSeries({points, targetInterval})
normalizeSeries(points, targetInterval) ==
  IF Len(points) = 0 THEN <<>>
  ELSE With(sorted(points), LAMBDA sortedPoints :
         LET sourceInterval == detectInterval(sortedPoints)
         IN  IF targetInterval = "1h"
             THEN IF sourceInterval = Some("1h") THEN sortedPoints
                  ELSE aggregateToHourly(sortedPoints)
             ELSE IF targetInterval = "15m"
             THEN IF sourceInterval = Some("15m") THEN sortedPoints
                  ELSE expandToQuarterHour(sortedPoints)
             ELSE sortedPoints)

\* ---- the series handed to the normalizer
\* the value of the k-th point (from 0) of a series
valueAt(pattern, k) ==
  CASE pattern = "flat" -> 100
    [] pattern = "ramp" -> 10 * k
    [] OTHER -> (7 * k * k + 3 * k) % 11

\* n points, step minutes apart and step minutes long, from a start minute,
\* written with a UTC offset, in ascending or descending order
Series(n, step, from, off, pattern, descending) ==
  [k \in 1..n |->
     LET j == IF descending THEN n - k ELSE k - 1
     IN  [start |-> TIso(from + j * step, off, 0),
          end |-> TIso(from + (j + 1) * step, off, 0),
          value |-> VNum(valueAt(pattern, j)),
          currency |-> "EUR"]]

\* one point from a start minute to an end minute
Point(from, to, n) ==
  [start |-> TIso(from, 0, 0), end |-> TIso(to, 0, 0), value |-> VNum(n), currency |-> "EUR"]

\* lists that are no regular series: a point that ends before it starts,
\* irregular gaps, a missing quarter-hour, points with an unreadable or
\* missing timestamp or a value that is no number, and a null element
OddInputs ==
  { <<Point(0, 60, 10), Point(60, 120, 20), Point(120, 60, 30)>>,
    <<Point(0, 15, 1), Point(15, 30, 2), Point(60, 75, 3), Point(200, 215, 4)>>,
    <<Point(0, 15, 1), Point(30, 45, 3), Point(45, 60, 4), Point(60, 75, 5)>>,
    <<Point(0, 60, 1),
      [Point(60, 120, 2) EXCEPT !.start = TBad],
      [Point(120, 180, 3) EXCEPT !.value = VText],
      [Point(180, 240, 4) EXCEPT !.end = TNull],
      [Point(240, 300, 5) EXCEPT !.value = VUndefined],
      Point(300, 360, 6)>>,
    <<Point(0, 60, 1), NullElement, Point(60, 120, 2)>> }

\* the series tried: quarter-hour and hourly days, a 25-hour day, short
\* series, and series whose first two points are 30 minutes apart
SeriesInputs ==
  { Series(96, 15, 0, 0, "ramp", FALSE), Series(96, 15, 0, 120, "mixed", TRUE),
    Series(100, 15, 0, 0, "mixed", FALSE),
    Series(24, 60, 0, 0, "ramp", FALSE), Series(24, 60, 0, 120, "mixed", TRUE),
    Series(25, 60, 0, 0, "flat", FALSE),
    Series(4, 15, 120, 0, "mixed", FALSE), Series(2, 60, 0, 0, "ramp", TRUE),
    Series(1, 15, 0, 0, "flat", FALSE), Series(1, 60, 0, 0, "ramp", FALSE),
    Series(2, 30, 0, 0, "ramp", FALSE), Series(50, 30, 0, 0, "mixed", FALSE),
    Series(0, 15, 0, 0, "flat", FALSE), Series(1, 15, 165, 0, "flat", FALSE) }
    \cup OddInputs
TargetIntervals == {"1h", "15m", "30m"}

Returned(op, out, interval) ==
  Some([op |-> op, out |-> out, interval |-> interval, threw |-> FALSE, again |-> Null])
\* the call ended in an exception
Threw(op) == Some([op |-> op, out |-> <<>>, interval |-> Null, threw |-> TRUE, again |-> Null])
\* a returned series as the points of a further call
asPoints(out) ==
  [k \in DOMAIN out |->
     [start |-> out[k].start, end |-> out[k].end,
      value |-> VFraction(out[k].value[1], out[k].value[2]),
      currency |-> out[k].currency]]
normCall(result) ==
  /\ normOut' = result
  /\ UNCHANGED <<day, clock, priceCache, retained, pubLog, apiMsg, cyc, ft, curVars,
                 enableMqtt, scheduleEuMinutes, curFeed, apiCalled, restVars, sweepVars,
                 rateCalls, normIn, normTarget, timeZone, dateCall>>

\* normalizeSeries is called
Call_normalizeSeries ==
  /\ normOut = Null
  /\ normCall(IF throwsTypeError(normIn) THEN Threw("normalizeSeries")
              ELSE Returned("normalizeSeries", normalizeSeries(normIn, normTarget), Null))

\* normalizeSeries is called on what it returned, with the same target
Call_normalizeSeries_Again ==
  /\ normOut # Null
  /\ normOut[1].op = "normalizeSeries"
  /\ ~normOut[1].threw
  /\ normOut[1].again = Null
  /\ normCall(Some([normOut[1] EXCEPT
                     !.again = Some(normalizeSeries(asPoints(normOut[1].out), normTarget))]))

\* normalizeSeries, line 25: detectInterval is called on the sorted points
Call_detectInterval ==
  /\ normOut = Null
  /\ Len(normIn) > 0
  /\ ~throwsTypeError(normIn)
  /\ normCall(Returned("detectInterval", <<>>, Some(detectInterval(sorted(normIn)))))

\* normalizeSeries, line 31: aggregateToHourly is called on the sorted points
Call_aggregateToHourly ==
  /\ normOut = Null
  /\ Len(normIn) > 0
  /\ ~throwsTypeError(normIn)
  /\ normCall(Returned("aggregateToHourly", aggregateToHourly(sorted(normIn)), Null))

\* normalizeSeries, line 38: expandToQuarterHour is called on the sorted points
Call_expandToQuarterHour ==
  /\ normOut = Null
  /\ Len(normIn) > 0
  /\ ~throwsTypeError(normIn)
  /\ normCall(Returned("expandToQuarterHour", expandToQuarterHour(sorted(normIn)), Null))

InitNorm ==
  /\ day = 0
  /\ clock = 1
  /\ enableMqtt = FALSE
  /\ priceCache = EmptyMap
  /\ retained = EmptyMap
  /\ pubLog = <<>>
  /\ apiMsg = Null
  /\ apiCalled = FALSE
  /\ cyc = IdleCycle
  /\ ft = [t \in Tasks |-> IdleCall]
  /\ scheduleEuMinutes = {}
  /\ curFeed = {}
  /\ curByDate = EmptyMap
  /\ curLatest = Null
  /\ currencyRateCache = EmptyMap
  /\ curCall = IdleCurCall
  /\ priceService = Null
  /\ cacheFails = FALSE
  /\ req = Null
  /\ res = Null
  /\ normIn \in SeriesInputs
  /\ normTarget \in TargetIntervals
  /\ normOut = Null
  /\ timeZone \in Zones
  /\ storeCall = Null
  /\ cacheKeys = NoKeys
  /\ sweepCall = Null
  /\ rateCalls = NoRateCalls
  /\ dateCall = NoDateCall

NextNorm ==
  \/ Call_normalizeSeries
  \/ Call_normalizeSeries_Again
  \/ Call_detectInterval
  \/ Call_aggregateToHourly
  \/ Call_expandToQuarterHour

SpecNorm == InitNorm /\ [][NextNorm]_vars

\* ------------------------------------------------- dates, instant by instant
\* Instants are UTC minutes on the normalizer's time line (minute 0 is
\* 2025-10-25T22:00Z); a date is counted in days from 2025-10-26. The process
\* is at DateInstants[dateCall.at]: 00:30, 01:59, 02:00 and 02:30 local in the
\* zone "fallback" (23:30, 00:59, 00:00 and 00:30 in "fixed"), midday, and the
\* last minute of 2025-10-26 and the first of 2025-10-27 in both zones.
DateInstants == <<30, 59, 60, 90, 846, 1499, 1500>>
DateNow == DateInstants[dateCall.at]
\* the offsets fetchPricesOnly is called with here
DateOffsets == {-1, 0, 1}

\* getFullYear / getMonth / getDate, and date-fns format(d, "yyyy-MM-dd"):
\* the local calendar date of an instant
localDate(t) == (t + getTimezoneOffset(t) - SummerOffset) \div MinutesOf(1)
\* toISOString().split("T")[0]: the UTC calendar date of an instant
toISODate(t) == (t - SummerOffset) \div MinutesOf(1)
\* date.setDate(date.getDate() + k): the same local time k calendar days on
setDate(t, k) == UTC(t + getTimezoneOffset(t) + MinutesOf(k))
\* getDateForOffset(dayOffset) evaluated at instant t
getDateForOffsetAt(t, dayOffset) == localDate(setDate(t, dayOffset))
\* PriceFetcher.dateWithOffset(offset) evaluated at instant t
dateWithOffsetAt(t, offset) == localDate(t + MinutesOf(offset))

\* time passes (between two calls, or while a call awaits)
Dates_Tick ==
  /\ dateCall.at < Len(DateInstants)
  /\ dateCall' = [dateCall EXCEPT !.at = @ + 1]
  /\ UNCHANGED <<day, clock, priceCache, retained, pubLog, apiMsg, cyc, ft, curVars,
                 enableMqtt, scheduleEuMinutes, curFeed, apiCalled, restVars, normVars,
                 sweepVars, rateCalls>>

\* fetchPricesOnly(dayOffset): dateStr = this.getDateForOffset(dayOffset), and
\* the entry is not cached
fetchPricesOnly_DateStr ==
  /\ dateCall.pc = "idle"
  /\ \E off \in DateOffsets :
       LET dateStr == getDateForOffsetAt(DateNow, off)
       IN  /\ ~Has(priceCache, dateStr)
           /\ dateCall' = [dateCall EXCEPT !.pc = "keyed", !.off = off,
                                           !.dateStr = Some(dateStr)]
  /\ UNCHANGED <<day, clock, priceCache, retained, pubLog, apiMsg, cyc, ft, curVars,
                 enableMqtt, scheduleEuMinutes, curFeed, apiCalled, restVars, normVars,
                 sweepVars, rateCalls>>

\* priceFetcher.fetchPrices(dayOffset, ...): isoDate = dateWithOffset(dayOffset)
\* at the instant of this call; the upstream answers for isoDate (or the fetch
\* throws); createObject(getPriceKey(dateStr), prices)
fetchPricesOnly_FetchAndStore ==
  /\ dateCall.pc = "keyed"
  /\ LET iso == dateWithOffsetAt(DateNow, dateCall.off)
     IN  \E ok \in BOOLEAN :
           IF ok
           THEN /\ priceCache' = Put(priceCache, dateCall.dateStr[1],
                                     [priceDate |-> iso, src |-> "nordpool"])
                /\ dateCall' = [dateCall EXCEPT !.pc = "stored", !.isoDate = Some(iso)]
           ELSE /\ UNCHANGED priceCache
                /\ dateCall' = [dateCall EXCEPT !.pc = "threw", !.isoDate = Some(iso)]
  /\ UNCHANGED <<day, clock, retained, pubLog, apiMsg, cyc, ft, curVars,
                 enableMqtt, scheduleEuMinutes, curFeed, apiCalled, restVars, normVars,
                 sweepVars, rateCalls>>

\* handleMqttPublishing: today, tomorrow, yesterday and twoDaysAgo; and the
\* dates getDateForOffset gives runFetchCycle at the same instant
handleMqttPublishing_Dates ==
  /\ dateCall.pc = "idle"
  /\ dateCall' = [dateCall EXCEPT
       !.pc = "published",
       !.pub = Some([today |-> toISODate(DateNow),
                     tomorrow |-> toISODate(setDate(DateNow, 1)),
                     yesterday |-> toISODate(setDate(DateNow, -1)),
                     twoDaysAgo |-> toISODate(setDate(DateNow, -2))]),
       !.keys = Some([k \in -2..1 |-> getDateForOffsetAt(DateNow, k)])]
  /\ UNCHANGED <<day, clock, priceCache, retained, pubLog, apiMsg, cyc, ft, curVars,
                 enableMqtt, scheduleEuMinutes, curFeed, apiCalled, restVars, normVars,
                 sweepVars, rateCalls>>

\* the call returns
Dates_Return ==
  /\ dateCall.pc \in {"stored", "threw", "published"}
  /\ dateCall' = [NoDateCall EXCEPT !.at = dateCall.at]
  /\ UNCHANGED <<day, clock, priceCache, retained, pubLog, apiMsg, cyc, ft, curVars,
                 enableMqtt, scheduleEuMinutes, curFeed, apiCalled, restVars, normVars,
                 sweepVars, rateCalls>>

InitDates ==
  /\ day = 0
  /\ clock = 1
  /\ enableMqtt = TRUE
  /\ priceCache = EmptyMap
  /\ retained = EmptyMap
  /\ pubLog = <<>>
  /\ apiMsg = Null
  /\ apiCalled = FALSE
  /\ cyc = IdleCycle
  /\ ft = [t \in Tasks |-> IdleCall]
  /\ scheduleEuMinutes = {}
  /\ curFeed = {}
  /\ curByDate = EmptyMap
  /\ curLatest = Null
  /\ currencyRateCache = EmptyMap
  /\ curCall = IdleCurCall
  /\ priceService = Null
  /\ cacheFails = FALSE
  /\ req = Null
  /\ res = Null
  /\ normIn = <<>>
  /\ normTarget = "1h"
  /\ normOut = Null
  /\ timeZone \in Zones
  /\ storeCall = Null
  /\ cacheKeys = NoKeys
  /\ sweepCall = Null
  /\ rateCalls = NoRateCalls
  /\ dateCall = NoDateCall

NextDates ==
  \/ Dates_Tick
  \/ fetchPricesOnly_DateStr
  \/ fetchPricesOnly_FetchAndStore
  \/ handleMqttPublishing_Dates
  \/ Dates_Return

SpecDates == InitDates /\ [][NextDates]_vars

\* ------------------------------------------------------------------ claims
\* what handleMqttPublishing has handed to the transport in this run, read off
\* the messages themselves: the day (as an offset from today) and the kind
Issued ==
  [n \in 1..Len(pubLog) |->
     <<pubLog[n].msg.topic[2] - day,
       IF pubLog[n].msg.payload = <<>> THEN "retract" ELSE "publish">>]
IsCached(e) == Has(priceCache, day + e[1])
IsPrefix(a, b) == Len(a) <= Len(b) /\ \A n \in 1..Len(a) : a[n] = b[n]
AllOkBeforeLast == \A n \in 1..Len(pubLog) : n < Len(pubLog) => pubLog[n].ok
InPublishRun == cyc.pub \in {"running", "done", "failed"}

SeqTomorrow == << <<0, "publish">>, <<1, "publish">>, <<-1, "retract">> >>
SeqElse == << <<-1, "publish">>, <<0, "publish">>, <<-2, "retract">> >>

\* C1 as stated: when tomorrow is cached, a completed run has issued exactly
\* publish(today), publish(tomorrow), retract(yesterday)
C1_AlwaysAllThree ==
  (cyc.pub = "done" /\ cyc.tomorrowAvailable) => Issued = SeqTomorrow

\* C1: when tomorrow is cached, the messages issued are, in this order,
\* publish(today), publish(tomorrow), retract(yesterday), each only for a day
\* that is in the cache; a failed publish ends the run; a completed run has
\* issued all of them
C1_TomorrowOrder ==
  (InPublishRun /\ cyc.tomorrowAvailable) =>
     /\ IsPrefix(Issued, SelectSeq(SeqTomorrow, IsCached))
     /\ AllOkBeforeLast
     /\ cyc.pub = "done" => Issued = SelectSeq(SeqTomorrow, IsCached)
     /\ cyc.pub = "failed" => (pubLog # <<>> /\ ~pubLog[Len(pubLog)].ok)

C1_Witness ==
  /\ cyc.pub = "done"
  /\ cyc.tomorrowAvailable
  /\ Issued = SeqTomorrow

\* C2 as stated: when tomorrow is not cached, a completed run has issued exactly
\* publish(yesterday), publish(today), retract(twoDaysAgo)
C2_AlwaysAllThree ==
  (cyc.pub = "done" /\ ~cyc.tomorrowAvailable) => Issued = SeqElse

\* C2: when tomorrow is not cached, the messages issued are, in this order,
\* publish(yesterday), publish(today), retract(twoDaysAgo), each only for a day
\* that is in the cache; a failed publish ends the run; a completed run has
\* issued all of them
C2_ElseOrder ==
  (InPublishRun /\ ~cyc.tomorrowAvailable) =>
     /\ IsPrefix(Issued, SelectSeq(SeqElse, IsCached))
     /\ AllOkBeforeLast
     /\ cyc.pub = "done" => Issued = SelectSeq(SeqElse, IsCached)
     /\ cyc.pub = "failed" => (pubLog # <<>> /\ ~pubLog[Len(pubLog)].ok)

C2_Witness ==
  /\ cyc.pub = "done"
  /\ ~cyc.tomorrowAvailable
  /\ Issued = SeqElse

\* C3: if a day topic is retained when a publish sequence starts, a day topic
\* is retained after every step of the sequence
C3_NoGap ==
  (InPublishRun /\ cyc.startNonEmpty) => DOMAIN retained # {}

\* C4: every message handed to the transport, by handleMqttPublishing and by
\* publishToMqtt, has topic <prefix>/<date>, retain = true and qos = 1; a
\* retraction is the empty payload on the topic of its day, a publish carries
\* the cached object of its day; the broker then holds, respectively no longer
\* holds, a retained message on that topic
WellFormed(m) ==
  /\ m.retain = TRUE
  /\ m.qos = 1
  /\ m.topic[1] = "elwiz/prices"
  /\ m.topic[2] \in (0 - KeepDays - 1)..(MaxDay + 1)

C4_MessageShape ==
  /\ \A n \in 1..Len(pubLog) :
       LET e == pubLog[n]
       IN  /\ WellFormed(e.msg)
           /\ e.msg.topic = <<"elwiz/prices", e.date>>
           /\ Issued[n][2] = "publish" =>
                (Has(priceCache, e.date) /\ e.msg.payload = <<"json", priceCache[e.date]>>)
           /\ (n = Len(pubLog) /\ e.ok /\ cyc.pc = "pubend" /\ apiMsg = Null /\ ~apiCalled) =>
                IF Issued[n][2] = "retract"
                THEN ~Has(retained, e.msg.topic)
                ELSE Has(retained, e.msg.topic) /\ retained[e.msg.topic] = e.msg.payload
  /\ apiMsg # Null =>
       /\ WellFormed(apiMsg[1])
       /\ apiMsg[1].payload # <<>>
       /\ apiMsg[1].topic[2] = apiMsg[1].payload[2].priceDate

C4_Witness ==
  /\ apiMsg # Null
  /\ pubLog # <<>>
  /\ pubLog[Len(pubLog)].msg.payload = <<>>
  /\ pubLog[Len(pubLog)].ok

\* C5: a fetchPricesOnly call whose existence check finds the date in the cache
\* takes the hit path, on which it invokes no upstream fetch and writes nothing
\* and returns the cached object as it is stored; the upstream fetch is reached
\* only from a check that found no entry
C5_CachedNeverRefetched ==
  [][\A t \in Tasks :
       /\ (ft[t].pc = "fp_check" /\ ft'[t].pc # "fp_check" /\ Has(priceCache, ft[t].date))
            => ft'[t].pc = "fp_hit"
       /\ (ft[t].pc # "fp_fetch" /\ ft'[t].pc = "fp_fetch")
            => ~Has(priceCache, ft'[t].date)
       /\ (ft[t].pc = "fp_hit" /\ ft'[t].pc # "fp_hit")
            => /\ ft'[t].pc = "ret"
               /\ ft'[t].ret = Get(priceCache, ft[t].date)
               /\ ~ft'[t].fetched
               /\ ~ft'[t].created
               /\ priceCache' = priceCache]_vars

C5_Witness ==
  \E t \in Tasks :
    /\ ft[t].pc = "ret"
    /\ ft[t].hit
    /\ ~ft[t].fetched
    /\ Has(priceCache, ft[t].date)
    /\ ft[t].ret = Some(priceCache[ft[t].date])

\* C6: once prices-<D> is in the cache no createObject is issued for it again
\* and its value never changes; it only ever leaves the cache in the sweep
C6_CachedObjectImmutable ==
  [][/\ \A d \in DOMAIN priceCache :
          IF d \in DOMAIN priceCache'
          THEN priceCache'[d] = priceCache[d]
          ELSE cyc.pc = "sweep"
      /\ \A t \in Tasks :
          (ft[t].pc = "fp_create" /\ ft'[t].pc = "ret") => ~Has(priceCache, ft[t].date)]_vars

\* C7: two overlapping calls for one date never both perform the upstream fetch
\* and the createObject
C7_OneFetchPersistPerDate ==
  \A t1, t2 \in Tasks :
    (t1 # t2 /\ ft[t1].date = ft[t2].date)
      => ~(ft[t1].fetched /\ ft[t1].created /\ ft[t2].fetched /\ ft[t2].created)

\* ---- the currency claims, read off the caches before and after a call
\* a call of the currency operations was made in this step
CurCallStep == curCall'.tick # curCall.tick
\* the code -> rate pairs of a currency record, whatever the key order
RatePairs(rec) == {rec.rates[n] : n \in DOMAIN rec.rates}
\* two currency records are the same data: same date, same rate for every code
SameData(a, b) == a.date = b.date /\ RatePairs(a) = RatePairs(b)
\* the rates a record holds for a code
RatesFor(rec, c) == {p[2] : p \in {q \in RatePairs(rec) : q[1] = c}}
\* the code a caller's argument stands for
AskedCode(arg) == IF arg \in {"eur", "EUR"} THEN "EUR" ELSE IF arg = "" THEN "NOK" ELSE arg
\* a fetch of the currency data that answered, made by this step
FetchedNow ==
  /\ CurCallStep
  /\ curCall'.op \in {"fetchAndStore", "ensure"}
  /\ curCall'.resp # Null
\* the record stored under the fetched record's date is the same data
StoredSame ==
  /\ Has(curByDate, curCall'.resp[1].date)
  /\ SameData(curByDate[curCall'.resp[1].date], curCall'.resp[1])

\* C8: a fetch whose data equals the record already stored for its date, up to
\* fetchedAt and key order, with currencies-latest present, issues no
\* createObject, leaves both cache keys as they are and does not clear the
\* in-memory rate map.
C8_SameDataNoWrite ==
  [][(FetchedNow /\ StoredSame /\ curLatest # Null)
       => /\ curCall'.creates = <<>>
          /\ ~curCall'.cleared
          /\ curByDate' = curByDate
          /\ curLatest' = curLatest
          /\ currencyRateCache' = currencyRateCache]_vars

\* C8 witness: a second fetch brought the stored data with another fetchedAt
\* or key order, wrote nothing and left a filled rate map alone.
C8_Witness ==
  /\ curCall.op = "fetchAndStore"
  /\ curCall.resp # Null
  /\ curCall.existing # Null
  /\ curCall.existing # curCall.resp
  /\ SameData(curCall.existing[1], curCall.resp[1])
  /\ curCall.creates = <<>>
  /\ curCall.hadRates
  /\ DOMAIN currencyRateCache # {}

\* C9: a fetch whose data differs from the record stored for its date, or for
\* whose date nothing is stored, writes currencies-<date> and currencies-latest
\* and empties the rate map; afterwards currencies-latest is the fetched record.
\* When getCurrencyRate makes the fetch, the map holds at most the rate it
\* resolved.
C9_ChangedDataWritten ==
  [][/\ (FetchedNow /\ ~StoredSame)
        => /\ curCall'.creates = <<"date", "latest">>
           /\ Has(curByDate', curCall'.resp[1].date)
           /\ curByDate'[curCall'.resp[1].date] = curCall'.resp[1]
           /\ curLatest' = Some(curCall'.resp[1])
           /\ currencyRateCache' = EmptyMap
     /\ (CurCallStep /\ curCall'.op = "getCurrencyRate" /\ curCall'.resp # Null /\ ~StoredSame)
        => /\ curByDate'[curCall'.resp[1].date] = curCall'.resp[1]
           /\ curLatest' = Some(curCall'.resp[1])
           /\ \A c \in DOMAIN currencyRateCache' :
                curCall'.result = Some(currencyRateCache'[c])]_vars

\* C9 witness: a fetch brought another rate for a date already stored, while
\* the rate map was filled; both keys were written and the map is empty.
C9_Witness ==
  /\ curCall.op = "fetchAndStore"
  /\ curCall.resp # Null
  /\ curCall.existing # Null
  /\ ~SameData(curCall.existing[1], curCall.resp[1])
  /\ curCall.hadRates
  /\ curCall.creates = <<"date", "latest">>
  /\ currencyRateCache = EmptyMap
  /\ curLatest = curCall.resp

\* C10: getCurrencyRate answers 1 for EUR without a cache read or a fetch;
\* for another code it answers from the rate map, else from currencies-latest
\* (and remembers the rate), else after exactly one refetch; when the code is
\* still missing after the refetch the call fails and the map gets no entry
\* for the code.
C10_RateLookup ==
  [][(CurCallStep /\ curCall'.op = "getCurrencyRate")
       => LET c == AskedCode(curCall'.arg)
              r == curCall'
          IN  IF c = "EUR"
              THEN /\ r.result = Some(1)
                   /\ r.reads = 0 /\ r.fetches = 0
                   /\ UNCHANGED <<curByDate, curLatest, currencyRateCache>>
              ELSE IF c \in DOMAIN currencyRateCache
              THEN /\ r.result = Some(currencyRateCache[c])
                   /\ r.reads = 0 /\ r.fetches = 0
                   /\ UNCHANGED <<curByDate, curLatest, currencyRateCache>>
              ELSE IF curLatest # Null /\ RatesFor(curLatest[1], c) # {}
              THEN /\ r.result = Some(CHOOSE x \in RatesFor(curLatest[1], c) : TRUE)
                   /\ r.reads = 1 /\ r.fetches = 0
                   /\ currencyRateCache' = Put(currencyRateCache, c, r.result[1])
                   /\ UNCHANGED <<curByDate, curLatest>>
              ELSE /\ r.fetches = 1
                   /\ IF r.resp # Null /\ RatesFor(r.resp[1], c) # {}
                      THEN /\ r.result = Some(CHOOSE x \in RatesFor(r.resp[1], c) : TRUE)
                           /\ Has(currencyRateCache', c)
                           /\ currencyRateCache'[c] = r.result[1]
                      ELSE /\ r.result = Null
                           /\ r.threw
                           /\ ~Has(currencyRateCache', c)]_vars

\* C10 witness: USD was in neither the map nor currencies-latest, the one
\* refetch answered without it, the call failed and the map has no USD entry.
C10_Witness ==
  /\ curCall.op = "getCurrencyRate"
  /\ curCall.arg = "USD"
  /\ curCall.fetches = 1
  /\ curCall.resp # Null
  /\ curCall.result = Null
  /\ curLatest # Null
  /\ ~Has(currencyRateCache, "USD")

\* ---- the REST claims, read off a request and the response to it
Responded == req # Null /\ res # Null
\* the raw segments of the request below /api/prices
Segs == SubSeq(req[1].url, 3, Len(req[1].url))
OnReadRoute ==
  /\ Responded
  /\ res[1].route \in {"daily", "dailyElement", "hour", "hourElement", "generic", "wholeDay"}
\* the date the request names, and whether it has the form YYYY-MM-DD
AskedDate == param(Segs[1])
WellFormedDate == AskedDate \in {"2025-10-15", "2025-10-16", "2025-13-45"}
\* the server has a price service, as PriceManager gives it one
Wired == priceService # Null
\* the day object the request's date stands for, if one is available
RootObject == fetchPriceObject(AskedDate)
SameJson(a, b) == a[1] = b[1] /\ a = b

\* resolution by the segment grammar: digits index a sequence, any other
\* segment looks a key up in a mapping; <<"unspecified", 0>> where the grammar
\* says nothing (a segment of the other kind)
Unspecified == <<"unspecified", 0>>
RECURSIVE GrammarResolve(_, _, _)
GrammarResolve(cur, parts, k) ==
  IF k > Len(parts) THEN cur
  ELSE IF cur[1] = "arr" /\ IsDigits(parts[k])
  THEN IF NumberOf(parts[k]) < Len(cur[2])
       THEN GrammarResolve(cur[2][NumberOf(parts[k]) + 1], parts, k + 1)
       ELSE undefined
  ELSE IF cur[1] = "obj" /\ ~IsDigits(parts[k])
  THEN IF \E n \in DOMAIN cur[2] : cur[2][n][1] = parts[k]
       THEN GrammarResolve(
              cur[2][CHOOSE n \in DOMAIN cur[2] : cur[2][n][1] = parts[k]][2], parts, k + 1)
       ELSE undefined
  ELSE Unspecified

\* the path the generic route is asked to resolve, as the handler receives it
GenericPath == [n \in DOMAIN starParam(req[1]) |-> param(starParam(req[1])[n])]

\* C11: on the generic route the answer follows the segment grammar: the empty
\* path gives the root object; a path of index-into-sequence and
\* key-of-mapping steps gives the value it leads to, and is not-found (404)
\* when an index is out of range or a key is absent.
C11_SegmentGrammar ==
  (OnReadRoute /\ res[1].route = "generic" /\ Wired /\ WellFormedDate /\ RootObject # Null)
    => LET want == IF GenericPath = <<"">> THEN RootObject[1]
                   ELSE GrammarResolve(RootObject[1], GenericPath, 1)
       IN  \/ want = Unspecified
           \/ /\ IsUndefined(want)
              /\ res[1].http = 404
           \/ /\ ~IsUndefined(want)
              /\ res[1].http = 200
              /\ SameJson(res[1].body.value, want)

\* the path a read route resolves: the shorthand routes resolve daily[/field]
\* and hourly/<hour>[/field]
ResolvedPath ==
  CASE res[1].route = "daily" -> <<"daily">>
    [] res[1].route = "dailyElement" -> <<"daily", param(Segs[3])>>
    [] res[1].route = "hour" -> <<"hourly", ToString(NumberOf(Segs[2]))>>
    [] res[1].route = "hourElement" ->
         <<"hourly", ToString(NumberOf(Segs[2])), param(Segs[3])>>
    [] OTHER -> GenericPath

\* C12: whenever the path of a read request does not resolve in the day
\* object, the answer is 404 with the message "Path not found: " followed by
\* the path with a leading slash; hourly/99 gives "Path not found: /hourly/99"
\* and daily/avgPrice gives the stored number.
C12_PathNotFoundMessage ==
  (OnReadRoute /\ res[1].route # "wholeDay" /\ Wired /\ WellFormedDate /\ RootObject # Null
     /\ (res[1].route \in {"hour", "hourElement"} => NumberOf(Segs[2]) <= 23))
    => LET want == GrammarResolve(RootObject[1], ResolvedPath, 1)
       IN  /\ IsUndefined(want)
             => /\ res[1].http = 404
                /\ res[1].body.error = "Path not found: /" \o PathText(ResolvedPath)
           /\ (Segs = <<AskedDate, "hourly", "99">> /\ ~req[1].slash)
             => res[1].body.error = "Path not found: /hourly/99"
           /\ (Segs = <<AskedDate, "daily", "avgPrice">> /\ want = JNum(123))
             => (res[1].http = 200 /\ res[1].body.value = JNum(123))

\* the route a request under /api/prices/{date} belongs to, by its shape
ShapeRoute ==
  IF Len(Segs) = 2 /\ Segs[2] = "daily" THEN "daily"
  ELSE IF Len(Segs) = 3 /\ Segs[2] = "daily" THEN "dailyElement"
  ELSE IF Len(Segs) = 2 /\ IsDigits(Segs[2]) THEN "hour"
  ELSE IF Len(Segs) = 3 /\ IsDigits(Segs[2]) THEN "hourElement"
  ELSE IF Len(Segs) = 1 /\ ~req[1].slash THEN "wholeDay"
  ELSE "generic"
UnderPrices == Len(req[1].url) >= 3 /\ req[1].url[1] = "api" /\ req[1].url[2] = "prices"
HourlyEntry(h) == JObj(<< <<"spotPrice", JNum(h)>> >>)

\* C13: a request under a {date} prefix is handled by the first of daily,
\* daily/{field}, {hour}, {hour}/{field}, generic path, whole day that fits
\* it; {date}/{digits}[/{field}] is handled by the hour shorthand, which serves
\* hourly/{hour}[/{field}], and {date} alone is served the whole day object.
C13_RouteSpecificity ==
  (Responded /\ UnderPrices /\ res[1].route # "errorHandler")
    => /\ res[1].route = ShapeRoute
       /\ (Len(Segs) \in {2, 3} /\ IsDigits(Segs[2])) => res[1].route \in {"hour", "hourElement"}
       /\ (res[1].route = "hour" /\ res[1].http = 200)
            => SameJson(res[1].body.value, HourlyEntry(NumberOf(Segs[2])))
       /\ (res[1].route = "hourElement" /\ res[1].http = 200)
            => (Segs[3] = "spotPrice" /\ res[1].body.value = JNum(NumberOf(Segs[2])))
       /\ (Len(Segs) = 1 /\ res[1].http = 200)
            => SameJson(res[1].body.value, RootObject[1])

\* C13 witness: {date}/5/spotPrice was served by the hour shorthand
C13_Witness ==
  /\ Responded
  /\ Segs = <<"2025-10-15", "5", "spotPrice">>
  /\ res[1].route = "hourElement"
  /\ res[1].http = 200
  /\ res[1].body.value = JNum(5)

\* C14: with a price service in place, a read request whose date is not of
\* the form YYYY-MM-DD is answered 400, and so is a request to an hour route
\* whose hour is not in 0..23; the date is checked first, and no day object
\* is looked up for a request that fails either check.
C14_Validation ==
  (OnReadRoute /\ Wired)
    => /\ ~WellFormedDate
         => /\ res[1].http = 400
            /\ res[1].body.error = "Invalid date format. Expected YYYY-MM-DD."
            /\ ~res[1].lookedUp
       /\ (WellFormedDate /\ res[1].route \in {"hour", "hourElement"}
             /\ NumberOf(Segs[2]) > 23)
         => /\ res[1].http = 400
            /\ res[1].body.error = "Invalid hour. Must be 0-23."
            /\ ~res[1].lookedUp
       /\ res[1].http = 400 => ~res[1].lookedUp

\* C14 witness: an hour route got a bad date and a bad hour and answered 400
\* for the date
C14_Witness ==
  /\ Responded
  /\ Wired
  /\ Segs = <<"2025-1-5", "99">>
  /\ res[1].route = "hour"
  /\ res[1].http = 400
  /\ res[1].body.error = "Invalid date format. Expected YYYY-MM-DD."
  /\ ~res[1].lookedUp

\* no live slot holds the asked date and the cache has no entry for it
NoDayObject ==
  /\ \A slot \in {priceService[1].current, priceService[1].next, priceService[1].previous} :
       slot = Null \/ slot[1].date # AskedDate
  /\ ~Has(priceService[1].dayObjects, AskedDate)
  /\ dayOfDateString(AskedDate) = Null \/ ~Has(priceCache, dayOfDateString(AskedDate)[1])
DateMessage == "Price data not available for date: " \o AskedDate

\* C15 as stated: for a well-formed date with no day object available every
\* read route answers 404 with the date-specific message, whatever the rest
\* of the path.
C15_AnyPathNotFound ==
  (OnReadRoute /\ Wired /\ WellFormedDate /\ NoDayObject)
    => (res[1].http = 404 /\ res[1].body.error = DateMessage)

\* C15: for a well-formed date with no day object available every read route
\* answers 404 with the date-specific message, whatever the rest of the path,
\* unless the request is to an hour route with an hour outside 0..23 (which
\* is answered 400 before any lookup).
C15_MissingDayNotFound ==
  (OnReadRoute /\ Wired /\ WellFormedDate /\ NoDayObject
     /\ (res[1].route \in {"hour", "hourElement"} => NumberOf(Segs[2]) <= 23))
    => (res[1].http = 404 /\ res[1].body.error = DateMessage /\ res[1].body.status = 404)

\* C15 witness: a path that would not even decode, asked of a day that is
\* not available, is answered with the date-specific 404
C15_Witness ==
  /\ Responded
  /\ Wired
  /\ Segs = <<"2025-10-16", "daily", "%25">>
  /\ NoDayObject
  /\ res[1].http = 404
  /\ res[1].body.error = "Price data not available for date: 2025-10-16"

\* C16: a read request that runs into an unreachable cache backend is
\* answered with a 5xx status.
C16_BackendFailureIs5xx ==
  (OnReadRoute /\ Wired /\ cacheFails /\ res[1].lookedUp
     /\ \A slot \in {priceService[1].current, priceService[1].next, priceService[1].previous} :
          slot = Null \/ slot[1].date # AskedDate \/ priceService[1].throws)
    => res[1].http >= 500

\* C17: a response that carries an error has a body {status, error} whose
\* status is the HTTP status of the response.
C17_ErrorBodyStatus ==
  (Responded /\ res[1].body.isError) => res[1].body.status = res[1].http

\* ---- the normalizer claims, read off a series and what a call returned
NormCalled(op) == normOut # Null /\ normOut[1].op = op
\* the points handed in are whole: parsable timestamps on the minute, numbers
WholePoints ==
  \A i \in DOMAIN normIn :
    /\ normIn[i].start.tag = "iso" /\ normIn[i].start.ms = 0
    /\ normIn[i].end.tag = "iso" /\ normIn[i].end.ms = 0
    /\ normIn[i].value.tag = "num"
StartMinutes == {normIn[i].start.min : i \in DOMAIN normIn}
FirstMinute == CHOOSE m \in StartMinutes : \A o \in StartMinutes : m <= o
\* the point handed in that starts at a minute
PointAt(m) == normIn[CHOOSE i \in DOMAIN normIn : normIn[i].start.min = m]
\* n points, each step minutes long, one after the other
RegularSeries(n, step) ==
  /\ Len(normIn) = n
  /\ WholePoints
  /\ StartMinutes = {FirstMinute + step * k : k \in 0..(n - 1)}
  /\ \A i \in DOMAIN normIn : normIn[i].end.min = normIn[i].start.min + step
\* a timestamp names the minute m
Names(t, m) == t.tag = "iso" /\ t.min = m /\ t.ms = 0
\* a value is the quotient of two integers
IsQuotient(v, num, den) == v[2] > 0 /\ v[1] * den = num * v[2]

\* C18: aggregateToHourly turns a series of 96 consecutive quarter-hours that
\* begins on the hour into exactly 24 entries in ascending order, the h-th of
\* them the mean of the four quarter-hours of the h-th hour, starting where
\* the earliest of the four starts and ending where the latest ends.
C18_QuarterDayToHours ==
  (NormCalled("aggregateToHourly") /\ RegularSeries(96, 15) /\ FirstMinute % 60 = 0)
    => LET out == normOut[1].out
       IN  /\ Len(out) = 24
           /\ \A h \in 1..24 :
                LET from == FirstMinute + 60 * (h - 1)
                IN  h <= Len(out)
                    => /\ Names(out[h].start, from)
                       /\ Names(out[h].end, from + 60)
                       /\ IsQuotient(out[h].value,
                                     PointAt(from).value.n + PointAt(from + 15).value.n
                                       + PointAt(from + 30).value.n
                                       + PointAt(from + 45).value.n, 4)

\* the number of slices the claim gives a point of a duration in minutes
SliceCount(duration) == IF (2 * duration + 15) \div 30 >= 1 THEN (2 * duration + 15) \div 30 ELSE 1

\* C19: expandToQuarterHour splits every point of a series of equally long
\* points into max(1, round(duration / 15)) consecutive 15-minute windows that
\* start at the point's start, each carrying the point's value divided by
\* the number of slices; a 24-point hourly series gives 96 entries, each a
\* quarter of its source value.
C19_PointsToQuarters ==
  (NormCalled("expandToQuarterHour")
     /\ \E n \in 1..100, step \in {15, 30, 60} : RegularSeries(n, step))
    => LET out == normOut[1].out
           step == normIn[1].end.min - normIn[1].start.min
           slices == SliceCount(step)
       IN  /\ Len(out) = Len(normIn) * slices
           /\ RegularSeries(24, 60) => Len(out) = 96
           /\ \A k \in DOMAIN out :
                LET source == PointAt(FirstMinute + step * ((k - 1) \div slices))
                    index == (k - 1) % slices
                IN  /\ Names(out[k].start, source.start.min + 15 * index)
                    /\ Names(out[k].end, source.start.min + 15 * (index + 1))
                    /\ IsQuotient(out[k].value, source.value.n, slices)
                    /\ RegularSeries(24, 60) => IsQuotient(out[k].value, source.value.n, 4)

\* the distance in minutes between the two earliest points handed in
FirstGap ==
  LET second == CHOOSE m \in StartMinutes \ {FirstMinute} :
                  \A o \in StartMinutes \ {FirstMinute} : m <= o
  IN  second - FirstMinute
DistinctStarts == WholePoints /\ Cardinality(StartMinutes) = Len(normIn)
CountHeuristic == IF Len(normIn) > 48 THEN Some("15m") ELSE Some("1h")

\* C20 as stated: detectInterval answers "15m" or "1h" when the first two
\* points are 15 or 60 minutes apart, and with fewer than two points it
\* answers by the count heuristic (more than 48 points: "15m", else "1h").
C20_ShortSeriesCounted ==
  (NormCalled("detectInterval") /\ DistinctStarts)
    => /\ (Len(normIn) >= 2 /\ FirstGap = 15) => normOut[1].interval = Some(Some("15m"))
       /\ (Len(normIn) >= 2 /\ FirstGap = 60) => normOut[1].interval = Some(Some("1h"))
       /\ Len(normIn) < 2 => normOut[1].interval = Some(CountHeuristic)

\* C20: detectInterval answers "15m" or "1h" when the first two points are 15
\* or 60 minutes apart; when they are some other distance apart it answers by
\* the count heuristic (more than 48 points: "15m", else "1h"); with fewer
\* than two points it answers null.
C20_DetectInterval ==
  (NormCalled("detectInterval") /\ DistinctStarts)
    => /\ (Len(normIn) >= 2 /\ FirstGap = 15) => normOut[1].interval = Some(Some("15m"))
       /\ (Len(normIn) >= 2 /\ FirstGap = 60) => normOut[1].interval = Some(Some("1h"))
       /\ (Len(normIn) >= 2 /\ FirstGap \notin {15, 60})
            => normOut[1].interval = Some(CountHeuristic)
       /\ Len(normIn) < 2 => normOut[1].interval = Some(Null)

\* C20 witness: detectInterval was given a single point and answered null
C20_Witness ==
  /\ NormCalled("detectInterval")
  /\ Len(normIn) = 1
  /\ normOut[1].interval = Some(Null)

\* normalizeSeries returned, and was called again on what it returned
NormalizedTwice ==
  /\ NormCalled("normalizeSeries")
  /\ normOut[1].again # Null

\* C21: for either target, 1h or 15m, normalizeSeries applied to what
\* normalizeSeries returned, with the same target, returns the same series.
C21_Idempotent ==
  (NormalizedTwice /\ normTarget \in {"1h", "15m"}) => normOut[1].again[1] = normOut[1].out

\* the instant a returned timestamp names, in milliseconds
InstantOf(t) == t.min * 60000 + t.ms
\* a point handed in that the pre-filter is to keep: both timestamps
\* readable, a numeric value, and a start before its end
GoodPoint(point) ==
  /\ ~isNullElement(point)
  /\ point.start.tag = "iso"
  /\ point.end.tag = "iso"
  /\ point.value.tag \in {"num", "fraction"}
  /\ InstantOf(point.start) < InstantOf(point.end)
Normalized == NormCalled("normalizeSeries") /\ ~normOut[1].threw

\* C22: every point normalizeSeries returns has start < end and a finite
\* value; a call that returns the filtered points as they are (a target that
\* is neither 1h nor 15m) returns as many points as were handed in with
\* readable timestamps, a numeric value and start < end.
C22_PreFilter ==
  Normalized
    => /\ \A k \in DOMAIN normOut[1].out :
            /\ normOut[1].out[k].start.tag = "iso"
            /\ normOut[1].out[k].end.tag = "iso"
            /\ InstantOf(normOut[1].out[k].start) < InstantOf(normOut[1].out[k].end)
            /\ normOut[1].out[k].value[2] > 0
       /\ normTarget = "30m"
            => Len(normOut[1].out) = Cardinality({i \in DOMAIN normIn : GoodPoint(normIn[i])})

\* the length in minutes the target interval asks of every window
TargetMinutes == IF normTarget = "1h" THEN 60 ELSE 15

\* C23: a series normalizeSeries returns for the target 1h or 15m is in
\* ascending order of start, no window begins before the one ahead of it has
\* ended, and every window is as long as the target interval.
C23_SortedUniform ==
  (Normalized /\ normTarget \in {"1h", "15m"})
    => LET out == normOut[1].out
       IN  /\ \A k \in DOMAIN out :
                InstantOf(out[k].end) - InstantOf(out[k].start) = TargetMinutes * 60000
           /\ \A k \in 1..(Len(out) - 1) :
                /\ InstantOf(out[k].start) <= InstantOf(out[k + 1].start)
                /\ InstantOf(out[k].end) <= InstantOf(out[k + 1].start)

\* C24: normalizeSeries returns for every list handed in, and what it returns
\* holds no more points than the list holds well-formed ones.
C24_NeverRaises ==
  NormCalled("normalizeSeries")
    => /\ ~normOut[1].threw
       /\ normTarget = "30m"
            => Len(normOut[1].out) <= Cardinality({i \in DOMAIN normIn : ~isNullElement(normIn[i])})

\* ------------------------------------------------ claims: day-window store
StoreCalled(op) == storeCall # Null /\ storeCall[1].op = op
\* the last call on the store ran the rollover check
RolloverChecked == storeCall # Null /\ storeCall[1].checked
\* at that call today had advanced past the date in the current slot
TodayAdvanced ==
  /\ storeCall[1].before.current # Null
  /\ dayOfDateString(storeCall[1].before.current[1].date)[1] < storeCall[1].today
CountOf(events, name) == Cardinality({k \in DOMAIN events : events[k] = name})

\* C25: when today has advanced past the date in the current slot, the
\* rollover check shifts previous <- current, current <- next, next <- absent
\* and emits exactly one dayRollover; when today has not advanced, it leaves
\* the three slots unchanged and emits nothing.
C25_Rollover ==
  RolloverChecked =>
    IF TodayAdvanced
    THEN /\ slotsOf(priceService[1]) =
              [current |-> storeCall[1].before.next, next |-> Null,
               previous |-> storeCall[1].before.current]
         /\ CountOf(storeCall[1].emitted, "dayRollover") = 1
    ELSE /\ slotsOf(priceService[1]) = storeCall[1].before
         /\ storeCall[1].emitted = <<>>

\* a rollover check after midnight with all three slots populated has moved
\* yesterday's current and next slots on
C25_Witness ==
  /\ StoreCalled("checkRollover")
  /\ TodayAdvanced
  /\ storeCall[1].before.next # Null
  /\ storeCall[1].before.previous # Null
  /\ priceService[1].previous = storeCall[1].before.current
  /\ priceService[1].current = storeCall[1].before.next
  /\ priceService[1].next = Null
  /\ storeCall[1].emitted = <<"dayRollover">>

\* the last call on the store returned (did not throw)
StoreReturned(op) == StoreCalled(op) /\ ~storeCall[1].threw
\* the objects a lookup of date can come by without the next slot
NotFromNext(date) ==
  LET ps == priceService[1]
      d == dayOfDateString(date)
  IN  (IF Has(ps.dayObjects, date) THEN {ps.dayObjects[date]} ELSE {})
        \cup (IF ps.current # Null THEN {ps.current[1].obj} ELSE {})
        \cup (IF ps.previous # Null THEN {ps.previous[1].obj} ELSE {})
        \cup (IF d # Null /\ Has(priceCache, d[1]) THEN {priceCache[d[1]]} ELSE {})

\* C26: isNextDayAvailable() is true iff the next slot is populated; whenever
\* it is false, getNextDayHourly returns an empty list, getNextDaySummary
\* returns null, getAvailableDates reports tomorrow as null, and the REST
\* lookup serves nothing from the next-day slot.
C26_NextDayGuard ==
  /\ StoreReturned("isNextDayAvailable") =>
       (storeCall[1].result <=> priceService[1].next # Null)
  /\ (priceService # Null /\ ~isNextDayAvailable(priceService[1])) =>
       /\ StoreReturned("getNextDayHourly") => storeCall[1].result = JArr(<<>>)
       /\ StoreReturned("getNextDaySummary") => storeCall[1].result = Null
       /\ StoreReturned("getAvailableDates") => storeCall[1].result.tomorrow = Null
       /\ (StoreReturned("fetchPriceObject") /\ storeCall[1].result # Null) =>
            storeCall[1].result[1] \in NotFromNext(storeCall[1].arg)

\* getNextDayHourly asked of a store with today's prices and no next day
C26_Witness ==
  /\ StoreReturned("getNextDayHourly")
  /\ priceService[1].current # Null
  /\ priceService[1].next = Null
  /\ storeCall[1].result = JArr(<<>>)

\* ------------------------------------------------ claims: retention sweep
Swept == sweepCall # Null
\* the key holds a date, and that date lies more than keep days before the
\* instant the sweep ran at
OlderThan(key, keep) ==
  /\ dayOfDateString(key.rest) # Null
  /\ sweepCall[1].now - MinutesOf(dayOfDateString(key.rest)[1]) > MinutesOf(keep)

\* C27: the sweep deletes a prices-<date> entry exactly when its date is
\* older than now minus keepDays days and a currencies-<date> entry exactly
\* when its date is older than now minus currencyKeepDays days; it never
\* deletes currencies-latest nor a key whose suffix is no date, and every
\* other key stays as it was.
C27_RetentionSweep ==
  Swept =>
    /\ cacheKeys.prices \subseteq sweepCall[1].before.prices
    /\ cacheKeys.currencies \subseteq sweepCall[1].before.currencies
    /\ \A key \in sweepCall[1].before.prices :
         key \notin cacheKeys.prices <=>
           (key.prefix = PRICE_KEY_PREFIX /\ OlderThan(key, KeepDays))
    /\ \A key \in sweepCall[1].before.currencies :
         key \notin cacheKeys.currencies <=>
           (key.prefix = CURRENCY_KEY_PREFIX /\ OlderThan(key, sweepCall[1].currencyKeepDays))
    /\ \A key \in sweepCall[1].before.prices \cup sweepCall[1].before.currencies :
         dayOfDateString(key.rest) = Null =>
           key \in cacheKeys.prices \cup cacheKeys.currencies

\* a sweep that deleted a price entry and a currency entry, kept a dated
\* entry of each store, and met keys of the other store and undated keys
C27_Witness ==
  /\ Swept
  /\ \E key \in sweepCall[1].before.prices \ cacheKeys.prices : TRUE
  /\ \E key \in sweepCall[1].before.currencies \ cacheKeys.currencies : TRUE
  /\ \E key \in cacheKeys.prices :
       key.prefix = PRICE_KEY_PREFIX /\ dayOfDateString(key.rest) # Null
  /\ \E key \in cacheKeys.currencies :
       key.prefix = CURRENCY_KEY_PREFIX /\ dayOfDateString(key.rest) # Null
  /\ Key(CURRENCY_KEY_PREFIX, "latest") \in cacheKeys.currencies
  /\ Key(CURRENCY_KEY_PREFIX, isoDateString(-(KeepDays + 1))) \in cacheKeys.prices
  /\ Cardinality(cacheKeys.prices) # Cardinality(cacheKeys.currencies)

\* ------------------------------------------------- claims: the fetch cycle
\* the offsets runFetchCycle walks through
CycleOffsets == (0 - (KeepDays - 1))..1
EarliestHour == CHOOSE h \in ScheduleHours : \A other \in ScheduleHours : h <= other
\* whatever the clock shows, the gate is closed before the earliest schedule hour
GateClosedBeforeEarliestHour ==
  \A h \in 0..23, m \in 0..59 : shouldFetchNextDayAt(<<h, m>>) => h >= EarliestHour
\* the cycle's call is in the upstream fetch (invoked, the answer may be pending)
CycleFetching == ft["cycle"].pc \in {"fp_fetch", "fp_wait"} \/ ft["cycle"].fetched

\* what a step of the cycle and of its safeFetchAndProcess call keeps to
FetchWhenDueStep ==
  /\ (cyc.pc = "idle" /\ cyc'.pc = "loop") =>
       (cyc'.allow = shouldFetchNextDay /\ GateClosedBeforeEarliestHour)
  /\ (cyc.pc = "loop" /\ cyc'.pc = "call") =>
       (/\ cyc.i \in CycleOffsets
        /\ ~Has(priceCache, getDateForOffset(cyc.i))
        /\ (cyc.i = 1 => cyc.allow)
        /\ ft'["cycle"].off = cyc.i)
  /\ (ft["cycle"].pc = "sf_check" /\ ft'["cycle"].pc \in {"sf_hit", "fp_ensure"}
        /\ ft["cycle"].off = 1) => shouldFetchNextDay
  /\ (ft["cycle"].pc # "fp_fetch" /\ ft'["cycle"].pc = "fp_fetch") =>
       (/\ ft'["cycle"].off \in CycleOffsets
        /\ ft'["cycle"].date = getDateForOffset(ft'["cycle"].off)
        /\ ~Has(priceCache, ft'["cycle"].date)
        /\ (ft'["cycle"].off = 1 => TimeSamples[clock][1] >= EarliestHour))

\* C28: within runFetchCycle an upstream fetch is attempted for an offset in
\* [-(keepDays - 1), +1] only, only after the existence checks found no cached
\* entry for that date, and for offset +1 only with shouldFetchNextDay true both
\* at the start of the cycle and at the gate of safeFetchAndProcess; the gate
\* is never open before the earliest schedule hour.
C28_FetchOnlyWhenDue == [][FetchWhenDueStep]_vars

\* the cycle has asked the upstream for tomorrow's prices
C28_Witness ==
  /\ cyc.pc = "call"
  /\ cyc.allow
  /\ ft["cycle"].fetched
  /\ ft["cycle"].off = 1

\* the step is a failure inside the cycle's safeFetchAndProcess call: the
\* upstream answered with an error, or the cache threw at a check or a write
CallFailsStep ==
  \/ ft["cycle"].pc = "fp_wait" /\ ft'["cycle"].pc = "ret"
  \/ cacheFails /\ ft["cycle"].pc \in {"sf_check", "fp_check", "fp_create"}
       /\ ft'["cycle"].pc # ft["cycle"].pc
       /\ ~(ft["cycle"].pc = "sf_check" /\ ft["cycle"].off = 1 /\ ~shouldFetchNextDay)
\* what a step of the cycle keeps to, whatever failed
IsolationStep ==
  /\ CallFailsStep => (ft'["cycle"].pc = "ret" /\ ft'["cycle"].ret = Null /\ cyc' = cyc)
  /\ (cyc.pc = "call" /\ cyc' # cyc) => (cyc'.pc = "loop" /\ cyc'.i = cyc.i + 1)
  /\ (cyc.pc = "loop" /\ cyc' # cyc) =>
       IF cyc.i > 1 THEN cyc'.pc = "sweep"
       ELSE \/ cyc'.pc = "call" /\ cyc'.i = cyc.i /\ ft'["cycle"].off = cyc.i
            \/ cyc'.pc = "loop" /\ cyc'.i = cyc.i + 1
  /\ (cyc.pc = "loop" /\ cyc' # cyc /\ cacheFails /\ cyc.i <= 1) =>
       (cyc'.pc = "loop" /\ cyc'.i = cyc.i + 1)
  /\ (cyc.pc = "sweep" /\ cyc' # cyc /\ ~cacheFails) => cyc'.pc = "pub"
  /\ (cyc.pc = "pub" /\ cyc' # cyc) => cyc'.pc \in {"pubstep", "pubend"}
  /\ cyc'.pc = "sweep" => cyc'.i > 1

LookedUp == StoreReturned("fetchPriceObject")
\* what each stage of the lookup has for the asked date (Null: nothing)
FromGetter ==
  IF ~priceService[1].getterThrows /\ Has(priceService[1].dayObjects, storeCall[1].arg)
  THEN Some(priceService[1].dayObjects[storeCall[1].arg])
  ELSE Null
MatchingSlots ==
  SelectSeq(<<priceService[1].current, priceService[1].next, priceService[1].previous>>,
            LAMBDA slot : slot # Null /\ slot[1].date = storeCall[1].arg)
FromSlots ==
  IF priceService[1].throws \/ MatchingSlots = <<>> THEN Null
  ELSE Some(MatchingSlots[1][1].obj)
FromCache ==
  LET d == dayOfDateString(storeCall[1].arg)
  IN  IF d # Null /\ Has(priceCache, d[1]) THEN Some(priceCache[d[1]]) ELSE Null
FirstFound ==
  IF FromGetter # Null THEN FromGetter ELSE IF FromSlots # Null THEN FromSlots ELSE FromCache
\* the price service threw during the lookup: getDayObject in step 1, or a
\* slot accessor in step 2 (reached when step 1 brought nothing)
ThrewInStep1 == priceService[1].getterThrows
ThrewInStep2 == FromGetter = Null /\ priceService[1].throws

\* C30 as stated: the first object found in the order getDayObject, slots,
\* cache is returned as it is, and after an exception of the price service in
\* step 1 or 2 the answer is the cache's.
C30_ExceptionToCache ==
  LookedUp =>
    storeCall[1].result = IF ThrewInStep1 \/ ThrewInStep2 THEN FromCache ELSE FirstFound

\* C30: for a valid date the lookup returns, as it is, the first object found
\* in the order getDayObject(date), the current / next / previous slot tagged
\* with the date, the cache entry; an exception of getDayObject leads on to the
\* slots, an exception of a slot accessor leads on to the cache, and neither
\* fails the lookup.
C30_LookupPriority ==
  /\ StoreCalled("fetchPriceObject") => ~storeCall[1].threw
  /\ LookedUp =>
       /\ storeCall[1].result = FirstFound
       /\ ThrewInStep2 => storeCall[1].result = FromCache

\* getDayObject threw, the current slot holds the asked date and the cache has
\* an entry for it: the slot's object is returned
C30_Witness ==
  /\ LookedUp
  /\ ThrewInStep1
  /\ ~priceService[1].throws
  /\ priceService[1].current # Null
  /\ priceService[1].current[1].date = storeCall[1].arg
  /\ FromCache # Null
  /\ storeCall[1].result = Some(priceService[1].current[1].obj)
  /\ storeCall[1].result # FromCache

\* ------------------------------------------------------------------- C31
\* the ensure step of start() has just run and its fetch failed
StartEnsureFailed ==
  /\ curCall'.tick # curCall.tick
  /\ curCall'.op = "ensure" /\ curCall'.fetches = 1 /\ curCall'.resp = Null

\* the ensure step of fetchPricesOnly has just run and its fetch failed
FetchEnsureFailed ==
  /\ ft["cycle"].pc = "fp_ensure"
  /\ ft'["cycle"].pc # "fp_ensure"
  /\ ft'["cycle"].rates \in {"failed", "threw"}

\* a failed ensure step: nothing thrown, the caller goes on to its next statement,
\* the currency cache and the rate map are as they were
EnsureContainedStep ==
  /\ StartEnsureFailed =>
       /\ ~curCall'.threw
       /\ curCall'.creates = <<>> /\ ~curCall'.cleared
       /\ <<curByDate', curLatest', currencyRateCache'>>
            = <<curByDate, curLatest, currencyRateCache>>
  /\ FetchEnsureFailed =>
       /\ ft'["cycle"].rates = "failed"
       /\ ft'["cycle"].pc = "fp_check"
       /\ ft'["cycle"].date = getDateForOffset(ft["cycle"].off)
       /\ <<curByDate', curLatest', currencyRateCache'>>
            = <<curByDate, curLatest, currencyRateCache>>

\* C31: a failure of the currency-rate fetch inside ensureCurrencyRates is
\* contained: ensureCurrencyRates does not throw, fetchPricesOnly and start() go on
\* as if the rates were ensured, no currency cache entry is written and the
\* in-process rate map is not cleared.
C31_EnsureContained == [][EnsureContainedStep]_vars

\* C31 witness: a fetchPricesOnly whose ensure step failed has fetched and stored
\* the prices, with rates in the in-process map and a record in the currency cache
C31_Witness ==
  /\ ft["cycle"].pc = "ret" /\ ft["cycle"].rates = "failed" /\ ft["cycle"].created
  /\ DOMAIN currencyRateCache # {}
  /\ curLatest # Null /\ curLatest[1].date # day
  /\ curCall.op = "ensure" /\ curCall.fetches = 1 /\ curCall.resp = Null

\* ------------------------------------------------------------------- C32
\* the last message handed to the transport in this run failed
PublishFailed == pubLog # <<>> /\ ~pubLog[Len(pubLog)].ok

\* the steps left in the plan of the run, among them the retraction
StepsLeft ==
  LET plan == PublishPlan(cyc.tomorrowAvailable)
  IN  {n \in (cyc.k + 1)..Len(plan) : Has(priceCache, isoDate(plan[n].off))}

\* what may follow a failed publish: the run ends without another message, the
\* cycle is idle again, and a run that begins starts from the first step
AfterFailureStep ==
  /\ PublishFailed =>
       /\ cyc.pc = "pubend" /\ cyc.pub = "failed"
       /\ pubLog' # pubLog => pubLog' = <<>>
       /\ cyc' # cyc => cyc' = IdleCycle
       /\ cyc' # cyc => retained' = retained
  /\ (cyc.pc = "pub" /\ cyc'.pc = "pubstep") => (cyc'.k = 1 /\ pubLog' = <<>>)
  /\ \A n \in 1..Len(pubLog') : n < Len(pubLog') => pubLog'[n].ok

\* C32: if a publish of handleMqttPublishing fails, no later publish and no
\* retraction of that cycle is issued, the failure does not leave
\* handleMqttPublishing (the cycle ends as any other and the scheduler can start
\* the next one), and the next cycle runs the whole sequence from its first step.
C32_FailedPublishEndsRun == [][AfterFailureStep]_vars

\* C32 witness: a publish has failed after an earlier one succeeded, with a cached
\* day still to come in the plan
C32_Witness ==
  /\ PublishFailed
  /\ Len(pubLog) >= 2
  /\ StepsLeft # {}
  /\ \E n \in StepsLeft : PublishPlan(cyc.tomorrowAvailable)[n].retract

\* ------------------------------------------------------------------- C33
\* the dates of the retained day topics
RetainedDates == {topic[2] : topic \in DOMAIN retained}

\* the pair a completed publish run has published
PublishedPair == IF cyc.tomorrowAvailable THEN {day, day + 1} ELSE {day - 1, day}

\* a fetch cycle has completed: fetch, sweep and a publish run without a failed
\* message, and no library user has published on the side
CycleCompleted == cyc.pc = "pubend" /\ cyc.pub = "done" /\ ~apiCalled /\ apiMsg = Null

\* C33: after every completed fetch cycle the retained surface holds no topic
\* outside the published pair ({today, tomorrow} when tomorrow is cached,
\* {yesterday, today} otherwise), whatever the earlier cycles did.
C33_RetainedWithinPair == CycleCompleted => RetainedDates \subseteq PublishedPair

\* the run the failing input describes: on day 1 the first cycle with tomorrow in
\* the cache retracts day 0 and leaves the topic of day -1, published the day before
C33_StaleTopicLeft ==
  /\ CycleCompleted /\ cyc.tomorrowAvailable /\ day = 1
  /\ RetainedDates = {-1, 1, 2}
  /\ Has(priceCache, -1)

\* ------------------------------------------------------------------- C34
\* the dates runFetchCycle fetches in a cycle of the day the sweep ran on:
\* getDateForOffset(i) for i from -(keepDays - 1) to 1
FetchWindow == {sweepCall[1].today + i : i \in (0 - (KeepDays - 1))..1}

\* the price entries of the fetch window that were cached when the sweep began
WindowKeysBefore ==
  {key \in sweepCall[1].before.prices :
     /\ key.prefix = PRICE_KEY_PREFIX
     /\ dayOfDateString(key.rest) # Null
     /\ dayOfDateString(key.rest)[1] \in FetchWindow}

\* C34: the retention sweep never deletes a price entry for a date inside the
\* window runFetchCycle fetches (today - (keepDays - 1) through today + 1), so an
\* entry fetched or found cached in a cycle is still cached when the cycle's
\* publish step runs.
C34_SweepKeepsWindow == Swept => WindowKeysBefore \subseteq cacheKeys.prices

\* the sweep the failing input describes: at 20:00 in a zone five hours behind
\* UTC the oldest entry of the fetch window is deleted
C34_WindowEntryDeleted ==
  /\ Swept
  /\ sweepCall[1].now = nowAt(<<20, 0>>, -300)
  /\ sweepCall[1].today = day
  /\ Key(PRICE_KEY_PREFIX, isoDateString(day - (KeepDays - 1))) \in
       sweepCall[1].before.prices \ cacheKeys.prices

\* in a zone east of UTC the entries of the fetch window stay
C34_HoldsEastOfUTC ==
  (Swept /\ sweepCall[1].now <= MinutesOf(sweepCall[1].today + 1)) =>
     WindowKeysBefore \subseteq cacheKeys.prices

\* ------------------------------------------------------------------- C35
\* every rate of the in-process map is the rate of its code in currencies-latest
MapMatchesLatest ==
  \A code \in DOMAIN currencyRateCache :
    /\ HasRate(curLatest, code)
    /\ currencyRateCache[code] = Prop(curLatest[1].rates, code)

\* C35: in every reachable state, under any interleaving of getCurrencyRate and
\* fetchAndStoreCurrencyRates at their await points, each entry code -> rate of
\* the in-process rate map equals the rate for that code in the persisted
\* currencies-latest record.
C35_MapMatchesLatest == MapMatchesLatest

\* the stale rate that outlives both calls: nothing is in flight and the map holds
\* a rate of the record that has been replaced
C35_StaleRateStays ==
  /\ rateCalls = NoRateCalls
  /\ dateCall = NoDateCall
  /\ ~MapMatchesLatest

\* a call served from the map while currencies-latest already holds another rate
C35_StaleRateReturned ==
  /\ rateCalls.get.pc = "done"
  /\ rateCalls.get.latest = Null
  /\ rateCalls.get.code = "NOK"
  /\ rateCalls.get.result # Null
  /\ rateCalls.get.result # Some(Prop(curLatest[1].rates, "NOK"))
  /\ rateCalls.store.pc = "clear"

\* ------------------------------------------------------------------- C37
\* time passes within one day while the gate is open, and the gate stays open
GateStaysOpenStep == (day' = day /\ shouldFetchNextDay) => shouldFetchNextDay'

\* C37: shouldFetchNextDay is monotone within a day: once it returns true at some
\* time of day it returns true at every later time of the same day, so a next-day
\* fetch allowed when runFetchCycle starts is still allowed when
\* safeFetchAndProcess checks the gate again later in the same cycle.
C37_GateMonotone == [][GateStaysOpenStep]_vars

\* the cycle that was allowed the next-day fetch at its start and whose
\* safeFetchAndProcess(1) returned null at the gate, before any lookup or fetch
C37_GateClosedMidCycle ==
  /\ cyc.pc = "call" /\ cyc.i = 1 /\ cyc.allow
  /\ ft["cycle"].pc = "ret" /\ ft["cycle"].off = 1 /\ ft["cycle"].ret = Null
  /\ ft["cycle"].rates = "none" /\ ~ft["cycle"].fetched
  /\ ~Has(priceCache, getDateForOffset(1))
  /\ ~shouldFetchNextDay

\* ------------------------------------------------------------------- C38
\* an ENTSO-E retry task fires while tomorrow's prices are not cached, and calls
\* safeFetchAndProcess(priceManager, 1, "entsoe", config)
RetryFiresStep ==
  (/\ ft["entsoe"].pc = "idle"
   /\ ft'["entsoe"].pc # "idle"
   /\ ~Has(priceCache, getDateForOffset(1)))
  => (/\ ft'["entsoe"].pc = "sf_check"
      /\ ft'["entsoe"].off = 1
      /\ ft'["entsoe"].prefer = "entsoe")

\* C38: whenever a scheduled ENTSO-E fallback task fires (at an hour in
\* scheduleHours and a minute in scheduleEuMinutes) and tomorrow's prices are not
\* cached, the task attempts a next-day fetch with source entsoe; this holds for
\* the default schedule (hours [13, 14], minutes [6, 11, 16, 21], EU minutes [5]).
C38_RetryAttemptsFetch == [][RetryFiresStep]_vars

\* the retry that fired at minute 5 and returned at once, tomorrow not cached
C38_RetrySkipped ==
  /\ TimeSamples[clock] = <<13, 5>>
  /\ ft["entsoe"].pc = "ret" /\ ft["entsoe"].prefer = "entsoe"
  /\ ft["entsoe"].rates = "none" /\ ~ft["entsoe"].fetched
  /\ ~Has(priceCache, getDateForOffset(1))
  /\ \A h \in ScheduleHours : ~shouldFetchNextDayAt(<<h, 5>>)

\* ------------------------------------------------------------------- C36
\* C36: every object stored under key prices-<D> by fetchPricesOnly is the
\* upstream result requested for date D, for every day offset and every instant
\* at which the two dates are evaluated: the date of the cache key
\* (getDateForOffset) equals the date sent upstream (dateWithOffset).
C36_StoredUnderItsDate ==
  \A d \in DOMAIN priceCache : priceCache[d].priceDate = d

\* 00:30 on the 25-hour day, offset +1, no time between the two evaluations:
\* the key is the next calendar day, the upstream is asked for the same day
C36_LongDayMismatch ==
  /\ timeZone = "fallback"
  /\ DateNow = 30
  /\ dateCall.pc = "stored" /\ dateCall.off = 1
  /\ dateCall.dateStr = Some(1) /\ dateCall.isoDate = Some(0)
  /\ dateWithOffsetAt(30, 1) # getDateForOffsetAt(30, 1)
  /\ priceCache[1].priceDate = 0

\* midnight between the two evaluations, in the zone without a transition
C36_MidnightMismatch ==
  /\ timeZone = "fixed"
  /\ DateNow = 60
  /\ dateCall.pc = "stored" /\ dateCall.off = 0
  /\ dateCall.dateStr = Some(-1) /\ dateCall.isoDate = Some(0)
  /\ getDateForOffsetAt(59, 0) = -1 /\ dateWithOffsetAt(59, 0) = -1

\* ------------------------------------------------------------------- C39
\* C39: at every instant and in every time zone the dates handleMqttPublishing
\* uses for yesterday, today, tomorrow and twoDaysAgo equal the dates
\* runFetchCycle uses for the offsets -1, 0, +1 and -2 when it builds cache keys.
C39_PublishDatesAreFetchDates ==
  dateCall.pc = "published" =>
    /\ dateCall.pub[1].today = dateCall.keys[1][0]
    /\ dateCall.pub[1].tomorrow = dateCall.keys[1][1]
    /\ dateCall.pub[1].yesterday = dateCall.keys[1][-1]
    /\ dateCall.pub[1].twoDaysAgo = dateCall.keys[1][-2]

\* 00:30 local in the zone one hour east of UTC: all four dates one day behind
C39_BehindAfterMidnight ==
  /\ timeZone = "fixed"
  /\ DateNow = 90
  /\ dateCall.pc = "published"
  /\ dateCall.keys[1] = [k \in -2..1 |-> k]
  /\ dateCall.pub[1] = [today |-> -1, tomorrow |-> 0, yesterday |-> -2, twoDaysAgo |-> -3]

\* at midday the two calendars agree, in both zones
C39_AgreeAtMidday ==
  \A k \in -2..1 : toISODate(setDate(846, k)) = getDateForOffsetAt(846, k)

\* ------------------------------------------------------------------- C40
\* the walk applies a segment that is not all digits to a sequence, or any
\* segment to a scalar value
RECURSIVE LeavesDocument(_, _, _)
LeavesDocument(cur, parts, k) ==
  IF k > Len(parts) THEN FALSE
  ELSE IF cur[1] = "arr"
  THEN IF IsDigits(parts[k])
       THEN /\ NumberOf(parts[k]) < Len(cur[2])
            /\ LeavesDocument(cur[2][NumberOf(parts[k]) + 1], parts, k + 1)
       ELSE TRUE
  ELSE IF cur[1] = "obj"
  THEN /\ \E n \in DOMAIN cur[2] : cur[2][n][1] = parts[k]
       /\ LeavesDocument(
            cur[2][CHOOSE n \in DOMAIN cur[2] : cur[2][n][1] = parts[k]][2], parts, k + 1)
  ELSE cur[1] \in {"str", "num"}
\* every segment of the path is its own decoding
PlainPath ==
  \A n \in DOMAIN GenericPath : decodeURIComponent(GenericPath[n]) = Some(GenericPath[n])

\* C40: _getByPath returns only values that are part of the stored document:
\* a non-numeric segment applied to an array (for example hourly/length) and any
\* segment applied to a scalar value are not-found.
C40_OnlyDocumentValues ==
  (/\ OnReadRoute /\ res[1].route = "generic" /\ Wired /\ WellFormedDate
   /\ RootObject # Null /\ GenericPath # <<"">> /\ PlainPath
   /\ LeavesDocument(RootObject[1], GenericPath, 1))
    => res[1].http = 404

\* hourly/length answers 200 with the number of hourly entries
C40_ArrayLength ==
  /\ OnReadRoute /\ res[1].route = "generic" /\ Wired
  /\ GenericPath = <<"hourly", "length">>
  /\ res[1].http = 200
  /\ res[1].body.value = JNum(24)

\* priceDate/5 answers 200 with one character of the date text
C40_StringIndex ==
  /\ OnReadRoute /\ res[1].route = "generic" /\ Wired
  /\ GenericPath = <<"priceDate", "5">>
  /\ res[1].http = 200
  /\ res[1].body.value = JStr("1")

\* a segment applied to a number, and an index past the end of a string, are
\* not-found
C40_NumberHasNoProperties ==
  (/\ OnReadRoute /\ res[1].route = "generic" /\ Wired /\ WellFormedDate /\ RootObject # Null
   /\ GenericPath \in {<<"daily", "avgPrice", "length">>, <<"priceDate", "99">>})
    => res[1].http = 404
====
